---- MODULE Spec2Model ----
(***************************************************************************)
(* State-machine model of the bankpoke transaction backend                 *)
(* (backend/app/main.py over the SQLite table of backend/app/db.py) and of *)
(* the LedgerService of src/bankpoke/mvp.py.                               *)
(*                                                                         *)
(* Text values are TLA+ strings.  Korean literals of the source are        *)
(* written in romanised ASCII: "mibunryu" is the unclassified sentinel,    *)
(* "suip"/"jichul"/"iche" the income/expense/transfer type labels,         *)
(* "naebuiche" the internal-transfer category.  The CSV/TSV column         *)
(* names are romanised the same way (naljja, geumaek, taip, naeyong,       *)
(* daebunryu, sobunryu, gyeoljesudan, memo_kr).                            *)
(* Python's None is the empty tuple <<>>, an optional value x is <<x>>.    *)
(***************************************************************************)
EXTENDS Integers, Sequences, FiniteSets, TLC

VARIABLES
    db,       \* committed content of table transactions (a set of rows)
    nextId,   \* number of uuid4() values drawn so far
    imp,      \* the running import_transactions call (pc "idle" when none)
    last,     \* summary of the last completed request and its response
    hist,     \* number of requests accepted and log of the completed ones
    svc,      \* the LedgerService object of mvp.py and its database file
    pending   \* by-id updates that have read their row and not yet written

vars == <<db, nextId, imp, last, hist, svc, pending>>

----------------------------------------------------------------------------
(* Bounds of the model *)

MaxId == 4

MaxRequests == 3

\* requests of the edit-then-re-import scenarios
MaxEditRequests == 3

\* requests of the repeated-import scenarios
MaxReimportRequests == 5

\* calls of LedgerService.import_tsv
MaxLedgerCalls == 3

\* requests of the read-during-import scenarios
MaxReadRequests == 3

\* requests of the concurrent-update scenarios
MaxUpdateRequests == 3

----------------------------------------------------------------------------
(* Generic helpers *)

None == <<>>

Some(x) == <<x>>

Abs(n) == IF n < 0 THEN -n ELSE n

\* dict.get(key) or "" on a csv.DictReader row
Get(row, k) == IF k \in DOMAIN row THEN row[k] ELSE ""

\* str.strip() on the text values the model draws
Strip(s) ==
    CASE s = " " -> ""
      [] s = " a " -> "a"
      [] s = " food " -> "food"
      [] s = " expense " -> "expense"
      [] OTHER -> s

\* str.lower() on the text values the model draws
Lower(s) ==
    CASE s = "Expense" -> "expense"
      [] s = "INCOME" -> "income"
      [] OTHER -> s

\* uuid.uuid4(): the n-th value drawn, distinct from every other value drawn
\* and from every identifier a file can carry
Uuid4(n) == <<"u1", "u2", "u3", "u4", "u5", "u6", "u7", "u8", "u9", "u10">>[n]

----------------------------------------------------------------------------
(* Dates: the text values the model draws, and the slices the code takes *)

\* len(date) >= 7
DateLen7(d) == d \in {"2026-02-15", "2026-02-16", "2026-03-01", "1999-12-31"}

\* date[:7]
DateKey7(d) ==
    CASE d \in {"2026-02-15", "2026-02-16"} -> "2026-02"
      [] d = "2026-03-01" -> "2026-03"
      [] d = "1999-12-31" -> "1999-12"
      [] OTHER -> d

\* int(key[:4]) and int(key[5:7]) of a month key
KeyYear(k) == CASE k = "1999-12" -> 1999 [] OTHER -> 2026

KeyMonth(k) == CASE k = "2026-02" -> 2 [] k = "2026-03" -> 3 [] OTHER -> 12

_month_prefix(year, month) ==
    CASE year = 2026 /\ month = 2 -> "2026-02"
      [] year = 2026 /\ month = 3 -> "2026-03"
      [] year = 1999 /\ month = 12 -> "1999-12"
      [] OTHER -> "0000-00"

\* SQL: date LIKE prefix || '%' for a seven-character prefix
DateLike(d, prefix) == DateLen7(d) /\ DateKey7(d) = prefix

----------------------------------------------------------------------------
(* Amount parsing *)

\* int(Decimal(str(value))): [ok, v, raises]; ok = FALSE stands for None.
\* Decimal accepts "inf", and int() of an infinite Decimal raises
\* OverflowError, which the except clause (InvalidOperation, ValueError) does
\* not catch: raises = TRUE.
_parse_amount_to_signed_int(value) ==
    CASE value = "-50" -> [ok |-> TRUE, v |-> -50, raises |-> FALSE]
      [] value = "50" -> [ok |-> TRUE, v |-> 50, raises |-> FALSE]
      [] value = "-60" -> [ok |-> TRUE, v |-> -60, raises |-> FALSE]
      [] value = "60" -> [ok |-> TRUE, v |-> 60, raises |-> FALSE]
      [] value = "0" -> [ok |-> TRUE, v |-> 0, raises |-> FALSE]
      [] value = "-0" -> [ok |-> TRUE, v |-> 0, raises |-> FALSE]
      [] value = "50.9" -> [ok |-> TRUE, v |-> 50, raises |-> FALSE]
      [] value = "inf" -> [ok |-> FALSE, v |-> 0, raises |-> TRUE]
      [] OTHER -> [ok |-> FALSE, v |-> 0, raises |-> FALSE]

\* str.replace(",", "") on the amount texts the model draws
RemoveCommas(s) == CASE s = "-5,0" -> "-50" [] OTHER -> s

_parse_amount_to_abs_int(value) == Abs(value)

----------------------------------------------------------------------------
(* Row Normalizer *)

\* Mutant: the sign of the source is kept
signed_amount_keeps_sign(direction, amount) == amount

\* Mutant: the amount is stored without a sign
signed_amount_unsigned(direction, amount) == Abs(amount)

\* abs(amount) if direction == "income" else -abs(amount)
signed_amount(direction, amount) == IF direction = "income" THEN Abs(amount) ELSE -Abs(amount)

TYPE_TO_DIRECTION == [suip |-> "income", jichul |-> "expense"]

\* The outcome of a normalizer call that ends in an uncaught OverflowError
OverflowError == <<[raised |-> "OverflowError"]>>

\* The result is None (<<>>) for a rejected record, else <<candidate>>, or
\* OverflowError when the call raises.
\* uuid is the value uuid4() returns if the record carries no id.
_normalize_cleaned_row(row, uuid) ==
    LET date == Strip(Get(row, "date"))
        amount == _parse_amount_to_signed_int(Get(row, "amount"))
        given == Lower(Strip(Get(row, "direction")))
        direction ==
            IF given \in {"income", "expense"} THEN given
            ELSE IF amount.v >= 0 THEN "income" ELSE "expense"
        description == Strip(Get(row, "description"))
    IN  IF date = "" THEN None
        ELSE IF amount.raises THEN OverflowError
        ELSE IF ~amount.ok THEN None
        ELSE IF description = "" THEN None
        ELSE Some([id |-> IF Strip(Get(row, "id")) # "" THEN Strip(Get(row, "id")) ELSE uuid,
                   date |-> date,
                   amount |-> signed_amount(direction, amount.v),
                   description |-> description,
                   merchant |-> IF Strip(Get(row, "merchant")) # ""
                                THEN Strip(Get(row, "merchant")) ELSE description,
                   method |-> Strip(Get(row, "method")),
                   direction |-> direction,
                   raw_category |-> IF Strip(Get(row, "raw_category")) # ""
                                    THEN Strip(Get(row, "raw_category")) ELSE "mibunryu",
                   memo |-> Strip(Get(row, "memo"))])

\* f"{main_category}>{sub_category}" on the category texts the model draws
JoinCategory(main, sub) ==
    CASE main = "food" /\ sub = "meal" -> "food>meal"
      [] OTHER -> "other>other"

_normalize_tsv_row(row, uuid) ==
    LET date == Strip(Get(row, "naljja"))
        amount == _parse_amount_to_signed_int(RemoveCommas(Get(row, "geumaek")))
        tx_type == Strip(Get(row, "taip"))
        direction ==
            IF tx_type \in DOMAIN TYPE_TO_DIRECTION THEN TYPE_TO_DIRECTION[tx_type]
            ELSE IF amount.v >= 0 THEN "income" ELSE "expense"
        description == Strip(Get(row, "naeyong"))
        main_category == Strip(Get(row, "daebunryu"))
        sub_category == Strip(Get(row, "sobunryu"))
    IN  IF date = "" THEN None
        ELSE IF amount.raises THEN OverflowError
        ELSE IF ~amount.ok THEN None
        ELSE IF description = "" THEN None
        ELSE Some([id |-> uuid,
                   date |-> date,
                   amount |-> signed_amount(direction, amount.v),
                   description |-> description,
                   merchant |-> description,
                   method |-> Strip(Get(row, "gyeoljesudan")),
                   direction |-> direction,
                   raw_category |-> IF main_category # "" /\ sub_category # ""
                                    THEN JoinCategory(main_category, sub_category)
                                    ELSE "mibunryu",
                   memo |-> Strip(Get(row, "memo_kr"))])

\* Whether normalising the record draws a uuid4() value
DrawsUuid(cleaned, row) ==
    IF cleaned
    THEN _normalize_cleaned_row(row, "u?") \notin {None, OverflowError} /\ Strip(Get(row, "id")) = ""
    ELSE _normalize_tsv_row(row, "u?") \notin {None, OverflowError}

\* Whether the normalizer raises on a record of the file
Raises(cleaned, records) ==
    \E i \in 1..Len(records) :
        (IF cleaned THEN _normalize_cleaned_row(records[i], "u?")
         ELSE _normalize_tsv_row(records[i], "u?")) = OverflowError

\* The loop of import_transactions over the reader: the candidates of the
\* records from index i on, n uuid4() values having been drawn before.
RECURSIVE NormalizeFrom(_, _, _, _)
NormalizeFrom(cleaned, records, i, n) ==
    IF i > Len(records) THEN <<>>
    ELSE LET draws == DrawsUuid(cleaned, records[i])
             uuid == IF draws THEN Uuid4(n + 1) ELSE "u?"
             normalized == IF cleaned THEN _normalize_cleaned_row(records[i], uuid)
                           ELSE _normalize_tsv_row(records[i], uuid)
         IN  normalized \o NormalizeFrom(cleaned, records, i + 1, IF draws THEN n + 1 ELSE n)

RECURSIVE CountDraws(_, _, _)
CountDraws(cleaned, records, i) ==
    IF i > Len(records) THEN 0
    ELSE (IF DrawsUuid(cleaned, records[i]) THEN 1 ELSE 0) + CountDraws(cleaned, records, i + 1)

----------------------------------------------------------------------------
(* Fingerprint Engine and fallback keys *)

_transaction_dedup_key(row) ==
    <<Strip(row.date), row.amount, Strip(row.description), Strip(row.method),
      Strip(row.direction), Strip(row.raw_category)>>

\* "|".join(key), then sha256: the digest is modelled as the joined text
\* itself (no two different texts share a digest)
_transaction_fingerprint(row) ==
    LET key == _transaction_dedup_key(row)
    IN  <<key[1], "|", key[2], "|", key[3], "|", key[4], "|", key[5], "|", key[6]>>

_transaction_fallback_key_with_method(row) ==
    <<Strip(row.date), row.amount, Strip(row.direction), Strip(row.method)>>

_transaction_fallback_key(row) ==
    <<Strip(row.date), row.amount, Strip(row.direction)>>

\* Mutant: the third-level key also holds the amount
_transaction_fallback_key_without_amount_keeps_amount(row) ==
    <<row.date, row.amount, row.description, row.direction, row.method>>

_transaction_fallback_key_without_amount(row) ==
    <<Strip(row.date), Strip(row.description), Strip(row.direction), Strip(row.method)>>

\* dict.get(key, []) on a fallback map, kept as a set of <<key, row id>> pairs
Candidates(map, key) == {p[2] : p \in {q \in map : q[1] = key}}

\* Mutant: the id is not appended
MapAdd_appends_nothing(map, key, id) == map

\* map.setdefault(key, []).append(id)
MapAdd(map, key, id) == map \cup {<<key, id>>}

----------------------------------------------------------------------------
(* The table transactions (backend/app/db.py) and one connection's view *)

Ids(rows) == {r.id : r \in rows}

RowById(rows, id) == CHOOSE r \in rows : r.id = id

\* Mutant: the UPDATE of a matched row also resets its excluded flag
ApplyWrite_resets_excluded(rows, w) ==
    IF w.kind = "insert" THEN rows \cup {w.row}
    ELSE {IF r.id = w.id
          THEN [r EXCEPT !.import_fingerprint = w.fingerprint, !.is_excluded = 0]
          ELSE r : r \in rows}

\* One uncommitted statement of a connection applied to the rows it sees
ApplyWrite(rows, w) ==
    IF w.kind = "insert" THEN rows \cup {w.row}
    ELSE {IF r.id = w.id THEN [r EXCEPT !.import_fingerprint = w.fingerprint] ELSE r : r \in rows}

RECURSIVE ApplyWrites(_, _, _)
ApplyWrites(rows, writes, i) ==
    IF i > Len(writes) THEN rows
    ELSE ApplyWrites(ApplyWrite(rows, writes[i]), writes, i + 1)

\* What the importing connection reads: the committed rows and its own writes
View(rows, writes) == ApplyWrites(rows, writes, 1)

AUTO_EXCLUDED_CATEGORIES == {"iche", "naebuiche", "transfer", "internal transfer"}

\* Mutant: the INSERT stores every row as not excluded
InsertedRow_never_excluded(row, fingerprint) ==
    [id |-> row.id, date |-> row.date, amount |-> row.amount,
     description |-> row.description, merchant |-> row.merchant,
     method |-> row.method, direction |-> row.direction,
     raw_category |-> row.raw_category, memo |-> row.memo,
     is_excluded |-> 0,
     import_fingerprint |-> fingerprint]

\* The row the INSERT of import_transactions stores for a candidate
InsertedRow(row, fingerprint) ==
    [id |-> row.id, date |-> row.date, amount |-> row.amount,
     description |-> row.description, merchant |-> row.merchant,
     method |-> row.method, direction |-> row.direction,
     raw_category |-> row.raw_category, memo |-> row.memo,
     is_excluded |-> IF Strip(row.raw_category) \in AUTO_EXCLUDED_CATEGORIES THEN 1 ELSE 0,
     import_fingerprint |-> fingerprint]

----------------------------------------------------------------------------
(* Requests and responses *)

IdleImp ==
    [pc |-> "idle", file |-> "", replace_month |-> FALSE, year |-> None, month |-> None,
     normalized_rows |-> <<>>, i |-> 0, deleted |-> 0, skipped_duplicates |-> 0,
     seen_fingerprints |-> {}, fallback_with_method_map |-> {}, fallback_map |-> {},
     fallback_without_amount_map |-> {}, writes |-> <<>>, db0 |-> {}]

Response(op, status) ==
    [op |-> op, status |-> status, file |-> "", replace_month |-> FALSE,
     imported |-> 0, skipped_duplicates |-> 0, deleted |-> 0, id |-> ""]

\* No request accepted yet; budget bounds the requests accepted, logging says
\* whether completed requests are kept in the log
NoHist(budget, logging) ==
    [requests |-> 0, budget |-> budget, logging |-> logging, log |-> <<>>]

----------------------------------------------------------------------------
(* POST /api/transactions/import *)

\* Mutant: the range of the target year and month is not checked
ReplaceTarget_skips_range_check(normalized_rows, year, month) ==
    LET month_keys == {DateKey7(normalized_rows[j].date) :
                          j \in {k \in 1..Len(normalized_rows) : DateLen7(normalized_rows[k].date)}}
        key == CHOOSE k \in month_keys : TRUE
        inferred == year = None \/ month = None
    IN  IF inferred /\ Cardinality(month_keys) # 1 THEN [status |-> 400, year |-> 0, month |-> 0]
        ELSE [status |-> 200,
              year |-> IF inferred THEN KeyYear(key) ELSE year[1],
              month |-> IF inferred THEN KeyMonth(key) ELSE month[1]]

\* Mutant: the month of the file is taken whenever the file has a single month
ReplaceTarget_prefers_file_month(normalized_rows, year, month) ==
    LET month_keys == {DateKey7(normalized_rows[j].date) :
                          j \in {k \in 1..Len(normalized_rows) : DateLen7(normalized_rows[k].date)}}
        key == CHOOSE k \in month_keys : TRUE
        inferred == year = None \/ month = None \/ Cardinality(month_keys) = 1
        target_year == IF inferred THEN KeyYear(key) ELSE year[1]
        target_month == IF inferred THEN KeyMonth(key) ELSE month[1]
    IN  IF inferred /\ Cardinality(month_keys) # 1 THEN [status |-> 400, year |-> 0, month |-> 0]
        ELSE IF target_year < 2000 \/ target_year > 2100 \/ target_month < 1 \/ target_month > 12
             THEN [status |-> 400, year |-> target_year, month |-> target_month]
        ELSE [status |-> 200, year |-> target_year, month |-> target_month]

\* The month a replace_month import deletes: [status, year, month]
ReplaceTarget(normalized_rows, year, month) ==
    LET month_keys == {DateKey7(normalized_rows[j].date) :
                          j \in {k \in 1..Len(normalized_rows) : DateLen7(normalized_rows[k].date)}}
        key == CHOOSE k \in month_keys : TRUE
        inferred == year = None \/ month = None
        target_year == IF inferred THEN KeyYear(key) ELSE year[1]
        target_month == IF inferred THEN KeyMonth(key) ELSE month[1]
    IN  IF inferred /\ Cardinality(month_keys) # 1 THEN [status |-> 400, year |-> 0, month |-> 0]
        ELSE IF target_year < 2000 \/ target_year > 2100 \/ target_month < 1 \/ target_month > 12
             THEN [status |-> 400, year |-> target_year, month |-> target_month]
        ELSE [status |-> 200, year |-> target_year, month |-> target_month]

\* Mutant: the DELETE compares the date with the prefix for equality
MonthRows_equal(rows, prefix) == {r \in rows : r.date = prefix}

\* DELETE FROM transactions WHERE date LIKE prefix%: the rows it removes
MonthRows(rows, prefix) == {r \in rows : DateLike(r.date, prefix)}

\* Mutant: the cascade ends after the second level
FallbackMatch_stops_at_level2(with_method_map, map, without_amount_map, row) ==
    LET candidates_with_method ==
            Candidates(with_method_map, _transaction_fallback_key_with_method(row))
        candidates == Candidates(map, _transaction_fallback_key(row))
    IN  IF Cardinality(candidates_with_method) = 1
        THEN Some(CHOOSE id \in candidates_with_method : TRUE)
        ELSE IF Cardinality(candidates) = 1
        THEN Some(CHOOSE id \in candidates : TRUE)
        ELSE None

\* Mutant: a level with several candidates is resolved to one of them
FallbackMatch_breaks_ties(with_method_map, map, without_amount_map, row) ==
    LET candidates_with_method ==
            Candidates(with_method_map, _transaction_fallback_key_with_method(row))
        candidates == Candidates(map, _transaction_fallback_key(row))
        candidates_without_amount ==
            Candidates(without_amount_map, _transaction_fallback_key_without_amount(row))
    IN  IF Cardinality(candidates_with_method) >= 1
        THEN Some(CHOOSE id \in candidates_with_method : TRUE)
        ELSE IF Cardinality(candidates) >= 1
        THEN Some(CHOOSE id \in candidates : TRUE)
        ELSE IF Cardinality(candidates_without_amount) >= 1
        THEN Some(CHOOSE id \in candidates_without_amount : TRUE)
        ELSE None

\* The candidate's match in the three fallback maps: <<id>> or None
FallbackMatch(with_method_map, map, without_amount_map, row) ==
    LET candidates_with_method ==
            Candidates(with_method_map, _transaction_fallback_key_with_method(row))
        candidates == Candidates(map, _transaction_fallback_key(row))
        candidates_without_amount ==
            Candidates(without_amount_map, _transaction_fallback_key_without_amount(row))
    IN  IF Cardinality(candidates_with_method) = 1
        THEN Some(CHOOSE id \in candidates_with_method : TRUE)
        ELSE IF Cardinality(candidates) = 1
        THEN Some(CHOOSE id \in candidates : TRUE)
        ELSE IF Cardinality(candidates_without_amount) = 1
        THEN Some(CHOOSE id \in candidates_without_amount : TRUE)
        ELSE None

\* Decoding, header check, normalisation, validation and the month deletion
\* with its own commit (main.py 432-490).  Files is the set of uploads drawn.
ImportStart(file, name, replace_month, year, month) ==
    LET is_cleaned_schema == {"date", "amount", "description"} \subseteq file.fieldnames
        is_raw_tsv_schema == {"naljja", "geumaek", "naeyong"} \subseteq file.fieldnames
        draws == CountDraws(is_cleaned_schema, file.records, 1)
        normalized_rows == NormalizeFrom(is_cleaned_schema, file.records, 1, nextId)
        target == ReplaceTarget(normalized_rows, year, month)
        prefix == _month_prefix(target.year, target.month)
        doomed == IF replace_month THEN MonthRows(db, prefix) ELSE {}
        rejected == [Response("import", 400) EXCEPT !.file = name, !.replace_month = replace_month]
    IN  /\ imp.pc = "idle"
        /\ IF ~is_cleaned_schema /\ ~is_raw_tsv_schema
           THEN /\ last' = rejected
                /\ UNCHANGED <<db, nextId, imp>>
           ELSE IF Raises(is_cleaned_schema, file.records)
           THEN /\ last' = [rejected EXCEPT !.status = 500]
                /\ UNCHANGED <<db, nextId, imp>>
           ELSE /\ nextId + draws <= MaxId
                /\ nextId' = nextId + draws
                /\ IF normalized_rows = <<>> \/ (replace_month /\ target.status # 200)
                   THEN /\ last' = rejected
                        /\ UNCHANGED <<db, imp>>
                   ELSE /\ db' = db \ doomed
                        /\ imp' = [IdleImp EXCEPT !.pc = "load", !.file = name,
                                       !.replace_month = replace_month,
                                       !.year = IF replace_month THEN Some(target.year) ELSE None,
                                       !.month = IF replace_month THEN Some(target.month) ELSE None,
                                       !.normalized_rows = normalized_rows,
                                       !.deleted = Cardinality(doomed),
                                       !.db0 = db]
                        /\ last' = last

\* Mutant: the fingerprint set starts empty
ImportLoad_forgets_fingerprints ==
    LET existing_rows == db
    IN  /\ imp.pc = "load"
        /\ imp' = [imp EXCEPT
               !.pc = "loop",
               !.i = 1,
               !.seen_fingerprints = {},
               !.fallback_with_method_map =
                   {<<_transaction_fallback_key_with_method(r), r.id>> : r \in existing_rows},
               !.fallback_map =
                   {<<_transaction_fallback_key(r), r.id>> : r \in existing_rows},
               !.fallback_without_amount_map =
                   {<<_transaction_fallback_key_without_amount(r), r.id>> : r \in existing_rows}]
        /\ UNCHANGED <<db, nextId, last>>

\* SELECT of the stored rows and construction of the fingerprint set and of
\* the three fallback maps (main.py 494-526)
ImportLoad ==
    LET existing_rows == db
    IN  /\ imp.pc = "load"
        /\ imp' = [imp EXCEPT
               !.pc = "loop",
               !.i = 1,
               !.seen_fingerprints =
                   {r.import_fingerprint : r \in {x \in existing_rows : x.import_fingerprint # None}},
               !.fallback_with_method_map =
                   {<<_transaction_fallback_key_with_method(r), r.id>> : r \in existing_rows},
               !.fallback_map =
                   {<<_transaction_fallback_key(r), r.id>> : r \in existing_rows},
               !.fallback_without_amount_map =
                   {<<_transaction_fallback_key_without_amount(r), r.id>> : r \in existing_rows}]
        /\ UNCHANGED <<db, nextId, last>>

\* One iteration of the reconcile loop (main.py 528-592).  A primary-key
\* violation of the INSERT raises: the with-block rolls the connection back
\* and the request ends with status 500.
ImportRow ==
    LET row == imp.normalized_rows[imp.i]
        fingerprint == _transaction_fingerprint(row)
        matched_existing_id ==
            FallbackMatch(imp.fallback_with_method_map, imp.fallback_map,
                          imp.fallback_without_amount_map, row)
    IN  /\ imp.pc = "loop"
        /\ imp.i <= Len(imp.normalized_rows)
        /\ UNCHANGED <<db, nextId>>
        /\ IF fingerprint \in imp.seen_fingerprints
           THEN /\ imp' = [imp EXCEPT !.i = @ + 1, !.skipped_duplicates = @ + 1]
                /\ last' = last
           ELSE IF matched_existing_id # None
           THEN /\ imp' = [imp EXCEPT
                       !.i = @ + 1,
                       !.skipped_duplicates = @ + 1,
                       !.seen_fingerprints = @ \cup {fingerprint},
                       !.writes = Append(@, [kind |-> "update", id |-> matched_existing_id[1],
                                             fingerprint |-> fingerprint])]
                /\ last' = last
           ELSE IF row.id \in Ids(View(db, imp.writes))
           THEN /\ imp' = IdleImp
                /\ last' = [Response("import", 500) EXCEPT !.file = imp.file,
                                !.replace_month = imp.replace_month]
           ELSE /\ imp' = [imp EXCEPT
                       !.i = @ + 1,
                       !.seen_fingerprints = @ \cup {fingerprint},
                       !.fallback_with_method_map =
                           MapAdd(@, _transaction_fallback_key_with_method(row), row.id),
                       !.fallback_map = MapAdd(@, _transaction_fallback_key(row), row.id),
                       !.fallback_without_amount_map =
                           MapAdd(@, _transaction_fallback_key_without_amount(row), row.id),
                       !.writes = Append(@, [kind |-> "insert",
                                             row |-> InsertedRow(row, fingerprint)])]
                /\ last' = last

\* Mutant: the response counts every candidate as imported
ImportCommit_counts_every_row ==
    /\ imp.pc = "loop"
    /\ imp.i > Len(imp.normalized_rows)
    /\ db' = View(db, imp.writes)
    /\ last' = [Response("import", 200) EXCEPT
           !.file = imp.file,
           !.replace_month = imp.replace_month,
           !.imported = Len(imp.normalized_rows),
           !.skipped_duplicates = imp.skipped_duplicates,
           !.deleted = imp.deleted]
    /\ imp' = IdleImp
    /\ UNCHANGED nextId

\* conn.commit() after the loop and the response (main.py 593-600)
ImportCommit ==
    /\ imp.pc = "loop"
    /\ imp.i > Len(imp.normalized_rows)
    /\ db' = View(db, imp.writes)
    /\ last' = [Response("import", 200) EXCEPT
           !.file = imp.file,
           !.replace_month = imp.replace_month,
           !.imported = Len(imp.normalized_rows) - imp.skipped_duplicates,
           !.skipped_duplicates = imp.skipped_duplicates,
           !.deleted = imp.deleted]
    /\ imp' = IdleImp
    /\ UNCHANGED nextId

----------------------------------------------------------------------------
(* POST /api/transactions *)

create_transaction(payload) ==
    LET cleaned_date == Strip(payload.date)
        cleaned_category == IF Strip(payload.category) # "" THEN Strip(payload.category) ELSE "mibunryu"
        cleaned_description == Strip(payload.description)
        signed == signed_amount(payload.direction, payload.amount)
        transaction_id == Uuid4(nextId + 1)
        fingerprint == _transaction_fingerprint(
            [date |-> cleaned_date, amount |-> signed, description |-> cleaned_description,
             method |-> Strip(payload.method), direction |-> payload.direction,
             raw_category |-> cleaned_category])
    IN  /\ imp.pc = "idle"
        /\ UNCHANGED imp
        /\ IF payload.amount <= 0 \/ cleaned_date = "" \/ cleaned_description = ""
           THEN /\ last' = Response("create", 400)
                /\ UNCHANGED <<db, nextId>>
           ELSE /\ nextId < MaxId
                /\ nextId' = nextId + 1
                /\ db' = db \cup {[id |-> transaction_id, date |-> cleaned_date,
                                   amount |-> signed, description |-> cleaned_description,
                                   merchant |-> cleaned_description, method |-> Strip(payload.method),
                                   direction |-> payload.direction, raw_category |-> cleaned_category,
                                   memo |-> Strip(payload.memo),
                                   is_excluded |-> IF payload.excluded THEN 1 ELSE 0,
                                   import_fingerprint |-> fingerprint]}
                /\ last' = [Response("create", 200) EXCEPT !.id = transaction_id]

----------------------------------------------------------------------------
(* PATCH endpoints *)

\* A request field that is not None
Has(payload, field) == field \in DOMAIN payload

\* [status, updates]: the column -> value dict, or the 400 it raises
_build_transaction_updates(payload, direction) ==
    LET columns ==
            (IF Has(payload, "date") THEN {"date"} ELSE {})
            \cup (IF Has(payload, "category") THEN {"raw_category"} ELSE {})
            \cup (IF Has(payload, "description") THEN {"description", "merchant"} ELSE {})
            \cup (IF Has(payload, "method") THEN {"method"} ELSE {})
            \cup (IF Has(payload, "amount") THEN {"amount"} ELSE {})
            \cup (IF Has(payload, "excluded") THEN {"is_excluded"} ELSE {})
        updates ==
            [c \in columns |->
                CASE c = "date" -> Strip(payload.date)
                  [] c = "raw_category" ->
                        IF Strip(payload.category) # "" THEN Strip(payload.category) ELSE "mibunryu"
                  [] c = "description" -> Strip(payload.description)
                  [] c = "merchant" -> Strip(payload.description)
                  [] c = "method" -> Strip(payload.method)
                  [] c = "amount" ->
                        IF direction = "expense" THEN -Abs(payload.amount) ELSE Abs(payload.amount)
                  [] c = "is_excluded" -> IF payload.excluded THEN 1 ELSE 0]
    IN  IF Has(payload, "date") /\ Strip(payload.date) = "" THEN [status |-> 400, updates |-> <<>>]
        ELSE IF Has(payload, "amount") /\ payload.amount <= 0 THEN [status |-> 400, updates |-> <<>>]
        ELSE [status |-> 200, updates |-> updates]

\* updates.get(column, stored value)
Merged(updates, row, column) == IF column \in DOMAIN updates THEN updates[column] ELSE row[column]

\* UPDATE transactions SET ... WHERE id = ? AND direction = ?, committed
_apply_transaction_update(rows, transaction_id, updates, direction) ==
    {IF r.id = transaction_id /\ r.direction = direction
     THEN [c \in DOMAIN r |-> IF c \in DOMAIN updates THEN updates[c] ELSE r[c]]
     ELSE r : r \in rows}

\* update_expense_transaction / update_income_transaction up to the call of
\* _apply_transaction_update (direction names the endpoint): validation, the
\* SELECT of the row in rows and the fingerprint of the merged content.
\* [status, updates]: the dict handed to _apply_transaction_update, or the
\* status raised
UpdatePlan(rows, direction, transaction_id, payload) ==
    LET built == _build_transaction_updates(payload, direction)
        found == {r \in rows : r.id = transaction_id /\ r.direction = direction}
        row == CHOOSE r \in found : TRUE
        new_fingerprint == _transaction_fingerprint(
            [date |-> Merged(built.updates, row, "date"),
             amount |-> Merged(built.updates, row, "amount"),
             description |-> Merged(built.updates, row, "description"),
             method |-> Merged(built.updates, row, "method"),
             direction |-> direction,
             raw_category |-> Merged(built.updates, row, "raw_category")])
        updates == [c \in DOMAIN built.updates \cup {"import_fingerprint"} |->
                        IF c = "import_fingerprint" THEN new_fingerprint ELSE built.updates[c]]
    IN  IF built.status # 200 \/ DOMAIN built.updates = {} THEN [status |-> 400, updates |-> <<>>]
        ELSE IF found = {} THEN [status |-> 404, updates |-> <<>>]
        ELSE [status |-> 200, updates |-> updates]

\* The whole request served with no other request in between
update_transaction(direction, transaction_id, payload) ==
    LET plan == UpdatePlan(db, direction, transaction_id, payload)
        request == [Response("update", 200) EXCEPT !.id = transaction_id]
    IN  /\ imp.pc = "idle"
        /\ UNCHANGED <<nextId, imp>>
        /\ IF plan.status # 200
           THEN /\ last' = [request EXCEPT !.status = plan.status]
                /\ db' = db
           ELSE /\ db' = _apply_transaction_update(db, transaction_id, plan.updates, direction)
                /\ last' = request

\* The request served in two steps, other requests running in between: first
\* the validation, the SELECT and the fingerprint (main.py 804-835) ...
update_transaction_read(direction, transaction_id, payload) ==
    LET plan == UpdatePlan(db, direction, transaction_id, payload)
        request == [Response("update", 200) EXCEPT !.id = transaction_id]
    IN  /\ UNCHANGED <<db, nextId, imp>>
        /\ IF plan.status # 200
           THEN /\ last' = [request EXCEPT !.status = plan.status]
                /\ pending' = pending
           ELSE /\ last' = last
                /\ pending' = pending \cup
                       {[id |-> transaction_id, direction |-> direction, payload |-> payload,
                         updates |-> plan.updates]}

\* ... then _apply_transaction_update in a connection of its own and the
\* response (main.py 837-841): 404 when the UPDATE changed no row
update_transaction_write(u) ==
    LET request == [Response("update", 200) EXCEPT !.id = u.id]
    IN  /\ u \in pending
        /\ pending' = pending \ {u}
        /\ db' = _apply_transaction_update(db, u.id, u.updates, u.direction)
        /\ last' = IF \E r \in db : r.id = u.id /\ r.direction = u.direction
                   THEN request ELSE [request EXCEPT !.status = 404]
        /\ UNCHANGED <<nextId, imp>>

\* Mutant: several matches are resolved to one of them
ResolveMatch_updates_one(matched_ids) == IF Cardinality(matched_ids) = 0 THEN 404 ELSE 200

\* The status the number of matched ids decides: not found, conflict, or go on
ResolveMatch(matched_ids) ==
    IF Cardinality(matched_ids) = 0 THEN 404
    ELSE IF Cardinality(matched_ids) > 1 THEN 409
    ELSE 200

\* update_expense_transaction_by_match / update_income_transaction_by_match
update_transaction_by_match(direction, original, updated) ==
    LET built == _build_transaction_updates(updated, direction)
        rows == {r \in db :
                    /\ r.direction = direction
                    /\ r.date = Strip(original.date)
                    /\ r.raw_category = Strip(original.category)
                    /\ r.description = Strip(original.description)
                    /\ r.method = Strip(original.method)
                    /\ r.is_excluded = IF original.excluded THEN 1 ELSE 0}
        matched_ids == {r.id : r \in {x \in rows : _parse_amount_to_abs_int(x.amount) = original.amount}}
        request == Response("update_by_match", 200)
    IN  /\ imp.pc = "idle"
        /\ UNCHANGED <<nextId, imp>>
        /\ IF built.status # 200 \/ DOMAIN built.updates = {} \/ original.amount <= 0
           THEN /\ last' = [request EXCEPT !.status = 400]
                /\ db' = db
           ELSE IF ResolveMatch(matched_ids) # 200
           THEN /\ last' = [request EXCEPT !.status = ResolveMatch(matched_ids)]
                /\ db' = db
           ELSE /\ db' = _apply_transaction_update(
                             db, CHOOSE id \in matched_ids : TRUE, built.updates, direction)
                /\ last' = [request EXCEPT !.id = CHOOSE id \in matched_ids : TRUE]

----------------------------------------------------------------------------
(* GET /api/expense-transactions and /api/income-transactions: the items of
   all the groups of the response *)

\* Mutant: the listing does not filter on is_excluded
transactions_listing_shows_excluded(direction, year, month, include_excluded) ==
    LET prefix == _month_prefix(year, month)
        rows == {r \in db : DateLike(r.date, prefix) /\ r.direction = direction}
    IN  {[id |-> r.id, date |-> r.date,
          category |-> IF Strip(r.raw_category) # "" THEN Strip(r.raw_category) ELSE "mibunryu",
          description |-> Strip(r.description),
          amount |-> _parse_amount_to_abs_int(r.amount),
          method |-> Strip(r.method),
          excluded |-> r.is_excluded # 0] : r \in rows}

transactions_listing(direction, year, month, include_excluded) ==
    LET prefix == _month_prefix(year, month)
        rows == {r \in db :
                    /\ DateLike(r.date, prefix)
                    /\ r.direction = direction
                    /\ (include_excluded \/ r.is_excluded = 0)}
    IN  {[id |-> r.id, date |-> r.date,
          category |-> IF Strip(r.raw_category) # "" THEN Strip(r.raw_category) ELSE "mibunryu",
          description |-> Strip(r.description),
          amount |-> _parse_amount_to_abs_int(r.amount),
          method |-> Strip(r.method),
          excluded |-> r.is_excluded # 0] : r \in rows}

----------------------------------------------------------------------------
(* GET /api/summary and /api/category-breakdown *)

\* The sum of _parse_amount_to_abs_int(amount) over rows
RECURSIVE SumAbs(_)
SumAbs(rows) ==
    IF rows = {} THEN 0
    ELSE LET r == CHOOSE x \in rows : TRUE
         IN  _parse_amount_to_abs_int(r.amount) + SumAbs(rows \ {r})

\* Mutant: excluded rows are added to the totals
Totalled_with_excluded(row) == TRUE

\* The loop of summary adds the row to a total (it does not skip it as an
\* excluded income or expense row)
Totalled(row) ==
    ~(row.is_excluded # 0 /\ Lower(Strip(row.direction)) \in {"income", "expense"})

\* The response summary builds from the rows its SELECT reads in table
MonthlySummary(table, year, month) ==
    LET rows == {r \in table : DateLike(r.date, _month_prefix(year, month))}
        income == SumAbs({r \in rows : Totalled(r) /\ Lower(Strip(r.direction)) = "income"})
        expense == SumAbs({r \in rows : Totalled(r) /\ Lower(Strip(r.direction)) = "expense"})
    IN  [year |-> year, month |-> month, income |-> income, expense |-> expense,
         net_cashflow |-> income - expense, transaction_count |-> Cardinality(rows)]

summary(year, month) == MonthlySummary(db, year, month)

\* GET /api/summary as a request: it reads the committed rows, whether or not
\* an import is running, and answers with the summary
get_summary(year, month) ==
    /\ last' = [op |-> "summary", status |-> 200, result |-> summary(year, month)]
    /\ UNCHANGED <<db, nextId, imp>>

\* The totals dict of category_breakdown: category -> amount
category_breakdown(year, month) ==
    LET rows == {r \in db :
                    /\ DateLike(r.date, _month_prefix(year, month))
                    /\ r.direction = "expense"
                    /\ r.is_excluded = 0}
        category(r) == IF Strip(r.raw_category) # "" THEN Strip(r.raw_category) ELSE "mibunryu"
    IN  [c \in {category(r) : r \in rows} |-> SumAbs({r \in rows : category(r) = c})]

----------------------------------------------------------------------------
(* The requests the model draws *)

CleanedHeader ==
    {"id", "date", "amount", "description", "merchant", "method", "direction",
     "raw_category", "memo"}

TsvHeader ==
    {"naljja", "sigan", "taip", "daebunryu", "sobunryu", "naeyong", "geumaek", "hwapye",
     "gyeoljesudan", "memo_kr"}

RecA ==
    [id |-> "t1", date |-> "2026-02-15", amount |-> "-50", description |-> "a",
     merchant |-> "a", method |-> "card", direction |-> "expense",
     raw_category |-> "food", memo |-> ""]

\* same day, amount and method as RecA, another description, no id
\* (its amount carries the wrong sign for its direction)
RecB == [RecA EXCEPT !.id = "", !.amount = "50", !.description = "b", !.merchant = ""]

\* the id of RecA on another day
RecA2 == [RecA EXCEPT !.date = "2026-03-01"]

\* a zero amount with an explicit expense direction, padded texts, a
\* transfer-like category
RecZ ==
    [id |-> "", date |-> "2026-03-01", amount |-> "0", description |-> " a ",
     merchant |-> "", method |-> "card", direction |-> "Expense",
     raw_category |-> "transfer", memo |-> ""]

\* rejected: blank date
RecBlank == [RecA EXCEPT !.id = "", !.date = " "]

TsvA ==
    [naljja |-> "2026-02-15", taip |-> "jichul", daebunryu |-> "food", sobunryu |-> "meal",
     naeyong |-> "a", geumaek |-> "-5,0", gyeoljesudan |-> "card", memo_kr |-> ""]

TsvI ==
    [naljja |-> "2026-03-01", taip |-> "iche", daebunryu |-> "", sobunryu |-> "",
     naeyong |-> "b", geumaek |-> "50", gyeoljesudan |-> "card", memo_kr |-> ""]

Files ==
    [a_csv |-> [fieldnames |-> CleanedHeader, records |-> <<RecA>>],
     ab_csv |-> [fieldnames |-> CleanedHeader, records |-> <<RecA, RecB>>],
     b_csv |-> [fieldnames |-> CleanedHeader, records |-> <<RecB>>],
     dup_csv |-> [fieldnames |-> CleanedHeader, records |-> <<RecA, RecA2>>],
     z_csv |-> [fieldnames |-> CleanedHeader, records |-> <<RecZ, RecBlank>>],
     blank_csv |-> [fieldnames |-> CleanedHeader, records |-> <<RecBlank>>],
     t_tsv |-> [fieldnames |-> TsvHeader, records |-> <<TsvA, TsvI>>],
     x_txt |-> [fieldnames |-> {"date", "amount"}, records |-> <<RecA>>]]

\* (replace_month, year, month) of an import request
ReplaceParams ==
    {<<FALSE, None, None>>, <<TRUE, None, None>>, <<TRUE, Some(2026), Some(2)>>,
     <<TRUE, Some(1999), Some(12)>>, <<TRUE, Some(2026), None>>}

CreatePayloads ==
    {[date |-> "2026-02-15", direction |-> "expense", category |-> "food", description |-> "b",
      amount |-> 50, method |-> "card", memo |-> "", excluded |-> FALSE],
     [date |-> "2026-02-15", direction |-> "expense", category |-> "x", description |-> " a ",
      amount |-> 50, method |-> "card", memo |-> "", excluded |-> FALSE],
     [date |-> "2026-03-01", direction |-> "income", category |-> " ", description |-> "a",
      amount |-> 50, method |-> "", memo |-> "", excluded |-> TRUE],
     [date |-> "2026-02-15", direction |-> "expense", category |-> "food", description |-> "b",
      amount |-> 0, method |-> "card", memo |-> "", excluded |-> FALSE]}

UpdatePayloads ==
    {[amount |-> 60], [excluded |-> TRUE], [date |-> "2026-03-01"], [description |-> "b"],
     [category |-> " "], [method |-> "cash"], [amount |-> 60, description |-> "b"],
     [amount |-> 0], [date |-> " "], <<>>}

Directions == {"income", "expense"}

\* The snapshot a client sends for a listed row
SnapshotOf(r) ==
    [date |-> r.date,
     category |-> IF Strip(r.raw_category) # "" THEN Strip(r.raw_category) ELSE "mibunryu",
     description |-> Strip(r.description),
     amount |-> _parse_amount_to_abs_int(r.amount), method |-> Strip(r.method),
     excluded |-> r.is_excluded # 0]

----------------------------------------------------------------------------
(* LedgerService (src/bankpoke/mvp.py).  occurred_at is the number of minutes
   since 2026-02-13 00:00: the "%Y-%m-%d %H:%M:%S" texts the code stores
   order and subtract as these numbers do.  md5 and sha256 are injective on
   the values drawn: a digest is modelled by its input. *)

TYPE_MAP == [suip |-> "income", jichul |-> "expense", iche |-> "transfer"]

\* timedelta(minutes=5)
PAIR_WINDOW_MINUTES == 5

\* LedgerService(db_path) after init_db(): transactions is the table as the
\* service's connection sees it, committed the table in the database file,
\* result the outcome of the last import_tsv call and the text it was given
NewService ==
    [transactions |-> {}, committed |-> {}, seq |-> 0, calls |-> 0,
     result |-> [status |-> "none", raw_text |-> <<>>, imported |-> 0,
                 skipped_duplicates |-> 0, review_required |-> 0]]

\* datetime.strptime(date_s + " " + time_s, DATE_FMT) on the texts drawn;
\* ok is FALSE where it raises ValueError
strptime(date_s, time_s) ==
    LET day == CASE date_s = "2026-02-13" -> 0
                 [] date_s = "2026-02-14" -> 1
                 [] OTHER -> -1
        minute == CASE time_s = "00:00" -> 0
                    [] time_s = "10:20" -> 620
                    [] time_s = "10:22" -> 622
                    [] time_s = "10:25" -> 625
                    [] time_s = "10:26" -> 626
                    [] OTHER -> -1
    IN  [ok |-> day >= 0 /\ minute >= 0, v |-> day * 1440 + minute]

\* int(str(value).replace(",", "").strip() or "0") on the texts drawn
LedgerInt(value) ==
    CASE value = "10" -> [ok |-> TRUE, v |-> 10]
      [] value = "-10" -> [ok |-> TRUE, v |-> -10]
      [] value = " 1,0 " -> [ok |-> TRUE, v |-> 10]
      [] value = "20" -> [ok |-> TRUE, v |-> 20]
      [] value = "" -> [ok |-> TRUE, v |-> 0]
      [] OTHER -> [ok |-> FALSE, v |-> 0]

_none_if_blank(value) == IF Strip(value) = "" THEN None ELSE Some(Strip(value))

\* any(k in content for k in keywords) on the contents drawn
_is_internal_transfer(content) ==
    /\ content # None
    /\ content[1] \in {"seipeubakseu", "naegyejwaro iche", "seipeubakseu ipgeum"}

\* [status, row]: "none" for a skipped record, "raise" where strptime or
\* int raises ValueError
_normalize_row(row) ==
    LET date_s == Strip(Get(row, "naljja"))
        time_s == Strip(IF Get(row, "sigan") = "" THEN "00:00" ELSE Get(row, "sigan"))
        occurred == strptime(date_s, time_s)
        raw_type == Strip(Get(row, "taip"))
        tx_type == IF raw_type \in DOMAIN TYPE_MAP THEN TYPE_MAP[raw_type] ELSE "transfer"
        parsed == LedgerInt(Get(row, "geumaek"))
        signed == parsed.v
        hwapye == Strip(IF Get(row, "hwapye") = "" THEN "KRW" ELSE Get(row, "hwapye"))
        currency == IF hwapye = "" THEN "KRW" ELSE hwapye
        content == _none_if_blank(Get(row, "naeyong"))
        payment_method == _none_if_blank(Get(row, "gyeoljesudan"))
        review_required ==
            IF tx_type = "expense" /\ signed > 0 THEN 1
            ELSE IF tx_type = "income" /\ signed < 0 THEN 1
            ELSE 0
        transfer_external ==
            IF tx_type = "transfer" /\ ~_is_internal_transfer(content) THEN 1 ELSE 0
        row_hash ==
            <<date_s, "|", time_s, "|", raw_type, "|", signed, "|", currency, "|",
              IF payment_method = None THEN "" ELSE payment_method[1], "|",
              IF content = None THEN "" ELSE content[1]>>
    IN  IF date_s = "" THEN [status |-> "none", row |-> None]
        ELSE IF ~occurred.ok \/ ~parsed.ok THEN [status |-> "raise", row |-> None]
        ELSE [status |-> "row",
              row |-> [occurred_at |-> occurred.v, type |-> tx_type, amount |-> Abs(signed),
                       signed_amount |-> signed, currency |-> currency,
                       major_category |-> _none_if_blank(Get(row, "daebunryu")),
                       minor_category |-> _none_if_blank(Get(row, "sobunryu")),
                       content |-> content, payment_method |-> payment_method,
                       note |-> _none_if_blank(Get(row, "memo_kr")),
                       row_hash |-> row_hash, transfer_external |-> transfer_external,
                       review_required |-> review_required]]

\* Mutant: the table accepts a second row with a stored row_hash
HashStored_never(rows, row_hash) == FALSE

\* row_hash TEXT NOT NULL UNIQUE: the INSERT of a row with this hash raises
\* IntegrityError
HashStored(rows, row_hash) == \E r \in rows : r.row_hash = row_hash

\* The for loop of import_tsv from record i on.  acc holds the table as the
\* connection sees it, the AUTOINCREMENT counter and the three counters; a
\* second row with a stored row_hash raises IntegrityError, which is caught.
RECURSIVE ImportTsvFrom(_, _, _)
ImportTsvFrom(records, i, acc) ==
    IF i > Len(records) THEN acc
    ELSE LET normalized == _normalize_row(records[i])
         IN  IF normalized.status = "none" THEN ImportTsvFrom(records, i + 1, acc)
             ELSE IF normalized.status = "raise" THEN [acc EXCEPT !.status = "raise"]
             ELSE IF HashStored(acc.transactions, normalized.row.row_hash)
             THEN ImportTsvFrom(records, i + 1,
                      [acc EXCEPT !.skipped_duplicates = @ + 1])
             ELSE ImportTsvFrom(records, i + 1,
                      [acc EXCEPT
                          !.transactions = @ \cup
                              {[c \in DOMAIN normalized.row \cup {"id", "transfer_group_id"} |->
                                   IF c = "id" THEN acc.seq + 1
                                   ELSE IF c = "transfer_group_id" THEN None
                                   ELSE normalized.row[c]]},
                          !.seq = @ + 1,
                          !.imported = @ + 1,
                          !.review_required = @ + normalized.row.review_required])

\* Mutant: only the row inserted last is selected
unmatched_transfers_newest_only(rows) ==
    {r \in rows : /\ r.type = "transfer"
                  /\ r.transfer_group_id = None
                  /\ \A x \in rows : x.id <= r.id}

\* SELECT ... WHERE type = 'transfer' AND transfer_group_id IS NULL
unmatched_transfers(rows) ==
    {r \in rows : r.type = "transfer" /\ r.transfer_group_id = None}

\* The orders ORDER BY occurred_at ASC can return the rows in (rows of one
\* timestamp come in any order)
RECURSIVE Orderings(_)
Orderings(rows) ==
    IF rows = {} THEN {<<>>}
    ELSE UNION {{<<r>> \o rest : rest \in Orderings(rows \ {r})} :
                   r \in {x \in rows : \A y \in rows : x.occurred_at <= y.occurred_at}}

\* Mutant: the inner loop does not skip the rows already used
FindRight_ignores_used(candidates, left, j, used) ==
    LET fits == {k \in j..Len(candidates) :
                    /\ candidates[k].id # left.id
                    /\ candidates[k].currency = left.currency
                    /\ candidates[k].signed_amount = -left.signed_amount
                    /\ Abs(candidates[k].occurred_at - left.occurred_at) <= PAIR_WINDOW_MINUTES}
    IN  IF fits = {} THEN 0 ELSE CHOOSE k \in fits : \A k2 \in fits : k <= k2

\* The inner loop of _pair_internal_transfers from candidate j on: the index
\* of the first counterpart of left, 0 if there is none
RECURSIVE FindRight(_, _, _, _)
FindRight(candidates, left, j, used) ==
    IF j > Len(candidates) THEN 0
    ELSE LET right == candidates[j]
         IN  IF \/ right.id \in used
                \/ right.id = left.id
                \/ right.currency # left.currency
                \/ right.signed_amount # -left.signed_amount
                \/ Abs(right.occurred_at - left.occurred_at) > PAIR_WINDOW_MINUTES
             THEN FindRight(candidates, left, j + 1, used)
             ELSE j

\* Mutant: the outer loop ends with the first pair it forms
RECURSIVE PairFrom_stops_after_first_pair(_, _, _, _)
PairFrom_stops_after_first_pair(candidates, i, used, rows) ==
    IF i > Len(candidates) THEN rows
    ELSE LET left == candidates[i]
             j == IF left.id \in used \/ ~_is_internal_transfer(left.content)
                  THEN 0
                  ELSE FindRight(candidates, left, 1, used)
         IN  IF j = 0 THEN PairFrom_stops_after_first_pair(candidates, i + 1, used, rows)
             ELSE LET right == candidates[j]
                      group_id == Some(<<left.id, ":", right.id>>)
                  IN  {IF r.id \in {left.id, right.id}
                       THEN [r EXCEPT !.transfer_group_id = group_id,
                                      !.review_required = 0]
                       ELSE r : r \in rows}

\* The outer loop of _pair_internal_transfers from candidate i on
RECURSIVE PairFrom(_, _, _, _)
PairFrom(candidates, i, used, rows) ==
    IF i > Len(candidates) THEN rows
    ELSE LET left == candidates[i]
             j == IF left.id \in used \/ ~_is_internal_transfer(left.content)
                  THEN 0
                  ELSE FindRight(candidates, left, 1, used)
         IN  IF j = 0 THEN PairFrom(candidates, i + 1, used, rows)
             ELSE LET right == candidates[j]
                      group_id == Some(<<left.id, ":", right.id>>)
                  IN  PairFrom(candidates, i + 1, used \cup {left.id, right.id},
                          {IF r.id \in {left.id, right.id}
                           THEN [r EXCEPT !.transfer_group_id = group_id,
                                          !.review_required = 0]
                           ELSE r : r \in rows})

_pair_internal_transfers(rows, candidates) == PairFrom(candidates, 1, {}, rows)

\* LedgerService.import_tsv(raw_text).  When a record raises, the call ends
\* there: the rows inserted so far stay in the connection, uncommitted.
import_tsv(records) ==
    LET done == ImportTsvFrom(records, 1,
                    [transactions |-> svc.transactions, seq |-> svc.seq, status |-> "ok",
                     imported |-> 0, skipped_duplicates |-> 0, review_required |-> 0])
        result == [status |-> done.status, raw_text |-> records, imported |-> done.imported,
                   skipped_duplicates |-> done.skipped_duplicates,
                   review_required |-> done.review_required]
    IN  /\ IF done.status = "raise"
           THEN svc' = [svc EXCEPT !.transactions = done.transactions, !.seq = done.seq,
                                   !.calls = @ + 1, !.result = result]
           ELSE \E candidates \in Orderings(unmatched_transfers(done.transactions)) :
                    LET paired == _pair_internal_transfers(done.transactions, candidates)
                    IN  svc' = [svc EXCEPT !.transactions = paired, !.committed = paired,
                                           !.seq = done.seq, !.calls = @ + 1,
                                           !.result = result]
        /\ UNCHANGED <<db, nextId, imp, last, hist, pending>>

\* Mutant: every income and expense row adds its magnitude
RECURSIVE SummaryLoop_adds_magnitudes(_)
SummaryLoop_adds_magnitudes(rows) ==
    IF rows = {} THEN [income |-> 0, expense |-> 0, transfer |-> 0]
    ELSE LET row == CHOOSE x \in rows : TRUE
             rest == SummaryLoop_adds_magnitudes(rows \ {row})
             signed == row.signed_amount
         IN  IF row.type = "income" THEN [rest EXCEPT !.income = @ + Abs(signed)]
             ELSE IF row.type = "expense" THEN [rest EXCEPT !.expense = @ + Abs(signed)]
             ELSE IF row.transfer_group_id = None
             THEN [rest EXCEPT !.transfer = @ + Abs(signed)]
             ELSE rest

\* The loop of monthly_summary over the rows fetched
RECURSIVE SummaryLoop(_)
SummaryLoop(rows) ==
    IF rows = {} THEN [income |-> 0, expense |-> 0, transfer |-> 0]
    ELSE LET row == CHOOSE x \in rows : TRUE
             rest == SummaryLoop(rows \ {row})
             signed == row.signed_amount
         IN  IF row.type = "income"
             THEN [rest EXCEPT !.income = @ + (IF signed > 0 THEN signed ELSE 0)]
             ELSE IF row.type = "expense"
             THEN [rest EXCEPT !.expense = @ + Abs(IF signed < 0 THEN signed ELSE 0)]
             ELSE IF row.transfer_group_id = None
             THEN [rest EXCEPT !.transfer = @ + Abs(signed)]
             ELSE rest

\* LedgerService.monthly_summary(year, month) over the table the connection
\* sees; occurred_at counts minutes from 2026-02-13 00:00
monthly_summary(rows, year, month) ==
    LET first == CASE <<year, month>> = <<2026, 1>> -> -61920
                   [] <<year, month>> = <<2026, 2>> -> -17280
                   [] <<year, month>> = <<2026, 3>> -> 23040
                   [] OTHER -> 67680
        end == CASE <<year, month>> = <<2026, 1>> -> -17280
                 [] <<year, month>> = <<2026, 2>> -> 23040
                 [] <<year, month>> = <<2026, 3>> -> 67680
                 [] OTHER -> 67680
        totals == SummaryLoop({r \in rows : r.occurred_at >= first /\ r.occurred_at < end})
    IN  [income |-> totals.income, expense |-> totals.expense,
         transfer_unmatched |-> totals.transfer,
         net_cashflow |-> totals.income - totals.expense]

----------------------------------------------------------------------------
(* The backend: requests served one at a time *)

Init ==
    /\ db = {}
    /\ nextId = 0
    /\ imp = IdleImp
    /\ last = Response("none", 0)
    /\ hist = NoHist(MaxRequests, FALSE)
    /\ svc = NewService
    /\ pending = {}

\* Bookkeeping of a step of the backend: a new request is accepted while the
\* budget lasts, and, when logging, a request that completes (no import is
\* left running) is logged with the direction and payload of an update, its
\* response and the rows then stored.
Accepting == hist.requests < hist.budget

Served(new, direction, payload) ==
    /\ hist' = [hist EXCEPT
           !.requests = @ + (IF new THEN 1 ELSE 0),
           !.log = IF hist.logging /\ imp'.pc = "idle"
                   THEN Append(@, [direction |-> direction, payload |-> payload,
                                   response |-> last', rows |-> db'])
                   ELSE @]
    /\ UNCHANGED <<svc, pending>>

Import ==
    /\ Accepting
    /\ \E name \in DOMAIN Files, p \in ReplaceParams :
           ImportStart(Files[name], name, p[1], p[2], p[3]) /\ Served(TRUE, "", <<>>)

Load == ImportLoad /\ Served(FALSE, "", <<>>)

Row == ImportRow /\ Served(FALSE, "", <<>>)

Commit == ImportCommit /\ Served(FALSE, "", <<>>)

Create ==
    /\ Accepting
    /\ \E payload \in CreatePayloads : create_transaction(payload) /\ Served(TRUE, payload.direction, payload)

Update ==
    /\ Accepting
    /\ \E direction \in Directions, id \in Ids(db) \cup {"missing"}, payload \in UpdatePayloads :
           update_transaction(direction, id, payload) /\ Served(TRUE, direction, payload)

UpdateByMatch ==
    /\ Accepting
    /\ \E direction \in Directions, r \in db, payload \in UpdatePayloads :
           update_transaction_by_match(direction, SnapshotOf(r), payload)
           /\ Served(TRUE, direction, payload)

Next ==
    \/ Import
    \/ Load
    \/ Row
    \/ Commit
    \/ Create
    \/ Update
    \/ UpdateByMatch

Spec == Init /\ [][Next]_vars

----------------------------------------------------------------------------
(* Imports only: any file, with or without replace_month, no create and no
   update *)

NextImports ==
    \/ Import
    \/ Load
    \/ Row
    \/ Commit

SpecImports == Init /\ [][NextImports]_vars

----------------------------------------------------------------------------
(* Edit then re-import: imports without replace_month and by-id updates,
   every completed request logged *)

EditFiles == {"a_csv", "b_csv", "ab_csv", "z_csv", "t_tsv"}

InitEdit ==
    /\ db = {}
    /\ nextId = 0
    /\ imp = IdleImp
    /\ last = Response("none", 0)
    /\ hist = NoHist(MaxEditRequests, TRUE)
    /\ svc = NewService
    /\ pending = {}

EditImport ==
    /\ Accepting
    /\ \E name \in EditFiles :
           ImportStart(Files[name], name, FALSE, None, None) /\ Served(TRUE, "", <<>>)

EditUpdate ==
    /\ Accepting
    /\ \E direction \in Directions, id \in Ids(db), payload \in UpdatePayloads :
           update_transaction(direction, id, payload) /\ Served(TRUE, direction, payload)

NextEdit ==
    \/ EditImport
    \/ Load
    \/ Row
    \/ Commit
    \/ EditUpdate

SpecEdit == InitEdit /\ [][NextEdit]_vars

----------------------------------------------------------------------------
(* Repeated imports: creates and imports without replace_month *)

ReimportFiles == {"a_csv", "ab_csv"}

ReimportCreates ==
    {[date |-> "2026-02-15", direction |-> "expense", category |-> "food", description |-> d,
      amount |-> 50, method |-> "card", memo |-> "", excluded |-> FALSE] : d \in {"b", "c"}}

InitReimport ==
    /\ db = {}
    /\ nextId = 0
    /\ imp = IdleImp
    /\ last = Response("none", 0)
    /\ hist = NoHist(MaxReimportRequests, TRUE)
    /\ svc = NewService
    /\ pending = {}

ReimportImport ==
    /\ Accepting
    /\ \E name \in ReimportFiles :
           ImportStart(Files[name], name, FALSE, None, None) /\ Served(TRUE, "", <<>>)

ReimportCreate ==
    /\ Accepting
    /\ \E payload \in ReimportCreates : create_transaction(payload) /\ Served(TRUE, payload.direction, payload)

NextReimport ==
    \/ ReimportImport
    \/ Load
    \/ Row
    \/ Commit
    \/ ReimportCreate

SpecReimport == InitReimport /\ [][NextReimport]_vars

----------------------------------------------------------------------------
(* Reads during imports: imports with and without replace_month, and summary
   requests served at any moment of a running import *)

ReadFiles == {"a_csv", "b_csv", "ab_csv"}

InitRead ==
    /\ db = {}
    /\ nextId = 0
    /\ imp = IdleImp
    /\ last = Response("none", 0)
    /\ hist = NoHist(MaxReadRequests, FALSE)
    /\ svc = NewService
    /\ pending = {}

ReadImport ==
    /\ Accepting
    /\ \E name \in ReadFiles, p \in ReplaceParams :
           ImportStart(Files[name], name, p[1], p[2], p[3]) /\ Served(TRUE, "", <<>>)

Summary ==
    /\ Accepting
    /\ \E ym \in {<<2026, 2>>, <<2026, 3>>} :
           get_summary(ym[1], ym[2]) /\ Served(TRUE, "", <<>>)

NextRead ==
    \/ ReadImport
    \/ Load
    \/ Row
    \/ Commit
    \/ Summary

SpecRead == InitRead /\ [][NextRead]_vars

----------------------------------------------------------------------------
(* Concurrent updates: an import of a one-row file, then by-id updates served
   in two steps each (sync endpoints run in worker threads), every completed
   request logged *)

ConcurrentPayloads ==
    {[amount |-> 60], [description |-> "b"], [excluded |-> TRUE], [date |-> "2026-03-01"],
     [amount |-> 60, description |-> "b"]}

InitUpdates ==
    /\ db = {}
    /\ nextId = 0
    /\ imp = IdleImp
    /\ last = Response("none", 0)
    /\ hist = NoHist(MaxUpdateRequests, TRUE)
    /\ svc = NewService
    /\ pending = {}

UpdatesImport ==
    /\ Accepting
    /\ pending = {}
    /\ ImportStart(Files["a_csv"], "a_csv", FALSE, None, None)
    /\ Served(TRUE, "", <<>>)

\* A rejected request is complete and logged; an accepted one is logged when
\* it has written
UpdateRead ==
    /\ Accepting
    /\ imp.pc = "idle"
    /\ \E direction \in Directions, id \in Ids(db), payload \in ConcurrentPayloads :
           /\ update_transaction_read(direction, id, payload)
           /\ hist' = [hist EXCEPT
                  !.requests = @ + 1,
                  !.log = IF pending' = pending
                          THEN Append(@, [direction |-> direction, payload |-> payload,
                                          response |-> last', rows |-> db'])
                          ELSE @]
           /\ svc' = svc

UpdateWrite ==
    \E u \in pending :
        /\ update_transaction_write(u)
        /\ hist' = [hist EXCEPT
               !.log = Append(@, [direction |-> u.direction, payload |-> u.payload,
                                  response |-> last', rows |-> db'])]
        /\ svc' = svc

NextUpdates ==
    \/ UpdatesImport
    \/ Load
    \/ Row
    \/ Commit
    \/ UpdateRead
    \/ UpdateWrite

SpecUpdates == InitUpdates /\ [][NextUpdates]_vars

----------------------------------------------------------------------------
(* The Row Normalizer on one record: the record and its schema are drawn at
   the start and kept in last; the normalizer is applied to the record, then
   a file that holds just this record is imported *)

NormalizerInputs ==
    {[cleaned |-> TRUE,
      row |-> [id |-> id, date |-> date, amount |-> amount, description |-> description,
               merchant |-> merchant, method |-> "card", direction |-> direction,
               raw_category |-> raw_category, memo |-> ""]] :
        id \in {"", "t1"}, date \in {"2026-02-15", " "},
        amount \in {"-50", "50", "0", "50.9", "x", "inf"}, description \in {"a", " "},
        merchant \in {"", " food "}, direction \in {"", "Expense", "income", "transfer"},
        raw_category \in {"", " food "}}
    \cup
    {[cleaned |-> FALSE,
      row |-> [naljja |-> date, taip |-> taip, daebunryu |-> daebunryu, sobunryu |-> sobunryu,
               naeyong |-> description, geumaek |-> amount, gyeoljesudan |-> "card",
               memo_kr |-> ""]] :
        date \in {"2026-02-15", " "}, taip \in {"suip", "jichul", "iche", ""},
        daebunryu \in {"", "food"}, sobunryu \in {"", "meal"},
        description \in {"a", " "}, amount \in {"-50", "50", "0", "-5,0", "x", "inf"}}

InitNormalize ==
    /\ db = {}
    /\ nextId = 0
    /\ imp = IdleImp
    /\ \E input \in NormalizerInputs :
           last = [op |-> "record", cleaned |-> input.cleaned, row |-> input.row]
    /\ hist = NoHist(1, FALSE)
    /\ svc = NewService
    /\ pending = {}

Normalize ==
    /\ last.op = "record"
    /\ last' = [op |-> "normalized", cleaned |-> last.cleaned, row |-> last.row,
                result |-> IF last.cleaned THEN _normalize_cleaned_row(last.row, Uuid4(1))
                           ELSE _normalize_tsv_row(last.row, Uuid4(1))]
    /\ UNCHANGED <<db, nextId, imp, hist, svc, pending>>

NormalizeImport ==
    /\ last.op = "normalized"
    /\ ImportStart([fieldnames |-> IF last.cleaned THEN CleanedHeader ELSE TsvHeader,
                    records |-> <<last.row>>], "record", FALSE, None, None)
    /\ Served(TRUE, "", <<>>)

NextNormalize ==
    \/ Normalize
    \/ NormalizeImport
    \/ Load
    \/ Row
    \/ Commit

SpecNormalize == InitNormalize /\ [][NextNormalize]_vars

----------------------------------------------------------------------------
(* The ledger service: import_tsv calls on one LedgerService *)

LedgerHeader ==
    {"naljja", "sigan", "taip", "daebunryu", "sobunryu", "naeyong", "geumaek", "hwapye",
     "gyeoljesudan", "memo_kr"}

\* an internal-transfer leg of +10 at 10:20
LegIn ==
    [naljja |-> "2026-02-13", sigan |-> "10:20", taip |-> "iche", daebunryu |-> "naebuiche",
     sobunryu |-> "", naeyong |-> "seipeubakseu", geumaek |-> "10", hwapye |-> "KRW",
     gyeoljesudan |-> "bank", memo_kr |-> ""]

\* a second leg of +10, two minutes later
LegIn2 == [LegIn EXCEPT !.sigan = "10:22"]

\* the opposite leg five minutes later, without a keyword
LegOut == [LegIn EXCEPT !.sigan = "10:25", !.naeyong = "atm", !.geumaek = "-10"]

\* an opposite leg six minutes later, with a keyword
LegLate == [LegIn EXCEPT !.sigan = "10:26", !.naeyong = "naegyejwaro iche", !.geumaek = "-10"]

\* an opposite leg in another currency, of an unknown type, padded amount
LegUsd ==
    [LegIn EXCEPT !.sigan = "10:22", !.taip = "gita", !.geumaek = "-10", !.hwapye = "USD"]

\* an expense of +10 (contradicting sign) without a time
Refund ==
    [LegIn EXCEPT !.sigan = "", !.taip = "jichul", !.naeyong = "shop", !.geumaek = " 1,0 ",
                  !.hwapye = ""]

\* an expense of -10 two minutes after LegIn, same currency
Spend == [LegIn EXCEPT !.sigan = "10:22", !.taip = "jichul", !.naeyong = "shop", !.geumaek = "-10"]

\* an income of -10 (contradicting sign) without a time
Clawback == [Refund EXCEPT !.taip = "suip", !.geumaek = "-10"]

LedgerBlank == [LegIn EXCEPT !.naljja = " "]

LedgerBadAmount == [LegOut EXCEPT !.geumaek = "x"]

LedgerTexts ==
    {<<LegIn, LegOut>>, <<LegIn>>, <<LegOut>>, <<LegIn, LegLate>>, <<LegLate, LegUsd, LedgerBlank>>,
     <<Refund, LegUsd>>, <<LegOut, LedgerBadAmount, LegIn>>, <<LegIn, LegIn2, LegOut>>,
     <<LegIn, Spend>>, <<Clawback, Spend>>}

ImportTsv ==
    /\ svc.calls < MaxLedgerCalls
    /\ \E records \in LedgerTexts : import_tsv(records)

NextLedger == ImportTsv

SpecLedger == Init /\ [][NextLedger]_vars

----------------------------------------------------------------------------
(* Vocabulary of the properties *)

\* The call a step belongs to: the running import before or after the step
Call(before, after) == IF after.pc # "idle" THEN after ELSE before

\* The step processes one candidate of the reconcile loop
RowStep == imp.pc = "loop" /\ imp.i <= Len(imp.normalized_rows) /\ imp' # imp

\* The step ends a running import: its commit, or the failure of an INSERT
CommitStep == imp.pc = "loop" /\ imp.i > Len(imp.normalized_rows) /\ imp'.pc = "idle"

FailStep == imp.pc = "loop" /\ imp'.pc = "idle" /\ last'.status = 500

\* All columns but import_fingerprint agree
SameButFingerprint(r1, r2) ==
    \A c \in DOMAIN r1 \ {"import_fingerprint"} : r1[c] = r2[c]

\* The stored row carries the values of the candidate
CarriesCandidate(r, row) == \A c \in DOMAIN row : r[c] = row[c]

\* Stored rows sharing the candidate's key at a cascade level
Level1(rows, row) ==
    {r \in rows : _transaction_fallback_key_with_method(r) = _transaction_fallback_key_with_method(row)}

Level2(rows, row) ==
    {r \in rows : _transaction_fallback_key(r) = _transaction_fallback_key(row)}

Level3(rows, row) ==
    {r \in rows : _transaction_fallback_key_without_amount(r)
                    = _transaction_fallback_key_without_amount(row)}

StoredFingerprints(rows) == {r.import_fingerprint : r \in rows}

\* The prefix of the month a replace-month call targets
TargetPrefix(call) == _month_prefix(call.year[1], call.month[1])

\* The log holds an import of a file into the empty store, then a by-id
\* update that succeeded, then an import of the same file
ImportEditReimport ==
    /\ Len(hist.log) = 3
    /\ hist.log[1].response.op = "import"
    /\ hist.log[1].response.status = 200
    /\ hist.log[2].response.op = "update"
    /\ hist.log[2].response.status = 200
    /\ hist.log[3].response.op = "import"
    /\ hist.log[3].response.file = hist.log[1].response.file

\* The columns the logged update set, with their values
LoggedUpdates ==
    _build_transaction_updates(hist.log[2].payload,
                               hist.log[2].direction).updates

Months == {<<2026, 2>>, <<2026, 3>>}

\* Rows of the same currency, exactly opposite signed amounts, timestamps at
\* most the window apart
Counterparts(l, r) ==
    /\ l.id # r.id
    /\ l.currency = r.currency
    /\ l.signed_amount = -r.signed_amount
    /\ Abs(l.occurred_at - r.occurred_at) <= PAIR_WINDOW_MINUTES

----------------------------------------------------------------------------
(* C1 *)

\* C1: when a successful import of a file without replace_month is followed,
\* with no request in between, by an import of the same file without
\* replace_month, the second import succeeds with imported = 0 and
\* skipped_duplicates = the number of valid rows, and stores as many rows as
\* were stored before it.
C1_ReimportIsIdempotent ==
    [][(/\ imp.pc = "loop"
        /\ imp'.pc = "idle"
        /\ ~imp.replace_month
        /\ last.op = "import"
        /\ last.status = 200
        /\ ~last.replace_month
        /\ last.file = imp.file)
       => /\ last'.status = 200
          /\ last'.imported = 0
          /\ last'.skipped_duplicates = Len(imp.normalized_rows)
          /\ Cardinality(db') = Cardinality(imp.db0)]_vars

----------------------------------------------------------------------------
(* C2 *)

\* C2: after the import of a one-row file, a by-id update of one of amount,
\* category, description or method, and a re-import of the file, the second
\* import reports skipped_duplicates = 1 and imported = 0, and exactly one row
\* is stored, which holds the edited value.
C2_EditSurvivesReimport ==
    (/\ ImportEditReimport
     /\ hist.log[1].response.imported = 1
     /\ hist.log[1].response.skipped_duplicates = 0
     /\ Cardinality(DOMAIN hist.log[2].payload) = 1
     /\ DOMAIN hist.log[2].payload \subseteq {"amount", "category", "description", "method"})
    => /\ hist.log[3].response.status = 200
       /\ hist.log[3].response.skipped_duplicates = 1
       /\ hist.log[3].response.imported = 0
       /\ \E r \in db :
              /\ db = {r}
              /\ \A c \in DOMAIN LoggedUpdates : r[c] = LoggedUpdates[c]

\* The amount of an imported row was edited to 60 and the file imported
\* again: the stored row holds -60 under the fingerprint of the file's row.
C2_Witness ==
    /\ ImportEditReimport
    /\ hist.log[1].response.imported = 1
    /\ hist.log[2].payload = [amount |-> 60]
    /\ hist.log[3].response.skipped_duplicates = 1
    /\ \E r \in db : r.amount = -60 /\ r.import_fingerprint # _transaction_fingerprint(r)

----------------------------------------------------------------------------
(* C3 *)

\* C3: after the import of a one-row file, a by-id update that marks the row
\* excluded, and a re-import of the file, the second import reports
\* skipped_duplicates = 1 and imported = 0, the row is still excluded, no
\* default listing shows it and the listing of its month with
\* include_excluded shows it with excluded = true.
C3_ExclusionSurvivesReimport ==
    (/\ ImportEditReimport
     /\ hist.log[1].response.imported = 1
     /\ hist.log[1].response.skipped_duplicates = 0
     /\ hist.log[2].payload = [excluded |-> TRUE])
    => /\ hist.log[3].response.status = 200
       /\ hist.log[3].response.skipped_duplicates = 1
       /\ hist.log[3].response.imported = 0
       /\ \E r \in db :
              /\ db = {r}
              /\ r.is_excluded = 1
              /\ \A d \in Directions, ym \in Months :
                     \A item \in transactions_listing(d, ym[1], ym[2], FALSE) : item.id # r.id
              /\ \E ym \in Months :
                     \E item \in transactions_listing(r.direction, ym[1], ym[2], TRUE) :
                         item.id = r.id /\ item.excluded

\* A row that the import stored as included was marked excluded and its file
\* imported again.
C3_Witness ==
    /\ ImportEditReimport
    /\ hist.log[2].payload = [excluded |-> TRUE]
    /\ \E r \in hist.log[1].rows : r.is_excluded = 0
    /\ hist.log[3].response.skipped_duplicates = 1
    /\ \E r \in db : r.is_excluded = 1

----------------------------------------------------------------------------
(* C7 *)

\* C7: after the import of a file, a by-id update of any fields of an imported
\* row, and a re-import of the file, no more rows are stored than before the
\* re-import.
C7_ReimportAfterEditAddsNoRow ==
    ImportEditReimport =>
        Cardinality(hist.log[3].rows) <= Cardinality(hist.log[2].rows)

----------------------------------------------------------------------------
(* C6 *)

\* C6 as stated: every stored row has amount >= 0 exactly when its direction
\* is income.
C6_AmountIffIncome == \A r \in db : (r.amount >= 0) <=> (r.direction = "income")

\* C6 amended: every stored row is an income row with amount >= 0 or an
\* expense row with amount <= 0 (a zero amount may be stored as an expense).
C6_AmountSignMatchesDirection ==
    \A r \in db :
        \/ r.direction = "income" /\ r.amount >= 0
        \/ r.direction = "expense" /\ r.amount <= 0

\* Rows written by an import of a wrongly signed record, by an import of a
\* zero expense and by an amount update are stored.
C6_Witness ==
    /\ \E r \in db : r.direction = "expense" /\ r.amount = 0
    /\ \E r \in db : r.direction = "expense" /\ r.amount = -60
    /\ last.op \in {"update", "update_by_match"}
    /\ last.status = 200

----------------------------------------------------------------------------
(* C10 *)

\* C10: every row stored when an import call started, and not dated in the
\* month the call replaces, is still stored after each step of the call (its
\* start, each candidate, its commit or its failure), with every column but
\* import_fingerprint unchanged.
C10_ImportFrame ==
    [][LET call == Call(imp, imp')
       IN  call.pc # "idle" =>
               \A r \in call.db0 :
                   (call.replace_month /\ DateLike(r.date, TargetPrefix(call)))
                   \/ (\E r2 \in db' : SameButFingerprint(r, r2))]_vars

\* An import has committed the rewrite of the fingerprint of a stored row:
\* the row carries a fingerprint that is not that of its content.
C10_Witness ==
    /\ last.op = "import"
    /\ last.status = 200
    /\ last.skipped_duplicates >= 1
    /\ \E r \in db : r.import_fingerprint # _transaction_fingerprint(r) /\ r.is_excluded = 1

----------------------------------------------------------------------------
(* C5 *)

----------------------------------------------------------------------------
(* C4 *)

\* C4 as stated: a committed replace-month import reports as deleted the
\* number of rows that were dated in the target month, reports every valid
\* row of the file as imported, and leaves as rows of that month exactly the
\* rows of the file, with the values of the file.
C4_ReplaceMonthInsertsEveryRow ==
    [][(CommitStep /\ imp.replace_month) =>
          LET prefix == TargetPrefix(imp)
          IN  /\ last'.deleted = Cardinality({x \in imp.db0 : DateLike(x.date, prefix)})
              /\ last'.imported = Len(imp.normalized_rows)
              /\ \A r \in {x \in db' : DateLike(x.date, prefix)} :
                     \E j \in 1..Len(imp.normalized_rows) :
                         CarriesCandidate(r, imp.normalized_rows[j])
              /\ \A j \in 1..Len(imp.normalized_rows) :
                     DateLike(imp.normalized_rows[j].date, prefix) =>
                         \E r \in db' : CarriesCandidate(r, imp.normalized_rows[j])]_vars

\* C4 amended: a replace-month import that passes validation deletes every
\* stored row dated in the target month; at its commit it reports their number
\* as deleted, imported + skipped_duplicates is the number of valid rows of the
\* file and imported the number of rows it inserted, and every row then dated
\* in the target month was inserted by this call from a row of the file, with
\* that row's identifier and values and the automatic excluded flag.
C4_ReplaceMonthDiscardsMonth ==
    [][LET call == Call(imp, imp')
           prefix == TargetPrefix(call)
           inserts == {k \in 1..Len(call.writes) : call.writes[k].kind = "insert"}
       IN  (call.pc # "idle" /\ call.replace_month) =>
               /\ \A r \in {x \in db' : DateLike(x.date, prefix)} :
                      /\ CommitStep
                      /\ \E k \in inserts : call.writes[k].row.id = r.id
                      /\ \E j \in 1..Len(call.normalized_rows) :
                             /\ CarriesCandidate(r, call.normalized_rows[j])
                             /\ r.is_excluded =
                                    InsertedRow(call.normalized_rows[j], None).is_excluded
               /\ CommitStep =>
                      /\ last'.deleted = Cardinality({x \in call.db0 : DateLike(x.date, prefix)})
                      /\ last'.imported + last'.skipped_duplicates = Len(call.normalized_rows)
                      /\ last'.imported = Cardinality(inserts)]_vars

\* A replace-month import has committed: it deleted at least one stored row of
\* the month and inserted a row of the file into the month.
C4_Witness ==
    /\ last.op = "import"
    /\ last.status = 200
    /\ last.replace_month
    /\ last.deleted >= 1
    /\ last.imported >= 1
    /\ \E r \in db : r.id = "t1" /\ r.date = "2026-02-15" /\ r.amount = -50

----------------------------------------------------------------------------
(* C9 *)

\* C9: when an import call fails partway, the store is as it was before the
\* call.
C9_FailedImportLeavesStore == [][FailStep => db' = imp.db0]_vars

----------------------------------------------------------------------------
(* C8 *)

\* C8: after an import_tsv call that returned, (1) when the only two transfer
\* rows stored have the same currency, opposite signed amounts and timestamps
\* five minutes apart, and one of them carries an internal-transfer keyword,
\* both have the same non-null transfer_group_id and review_required = 0;
\* (2) a transfer row with no counterpart stored has no group and
\* review_required = 1.
C8_PairedOrFlagged ==
    svc.result.status = "ok" =>
        /\ \A l, r \in svc.transactions :
               (/\ {x \in svc.transactions : x.type = "transfer"} = {l, r}
                /\ Counterparts(l, r)
                /\ Abs(l.occurred_at - r.occurred_at) = PAIR_WINDOW_MINUTES
                /\ _is_internal_transfer(l.content) \/ _is_internal_transfer(r.content))
               => /\ l.transfer_group_id # None
                  /\ l.transfer_group_id = r.transfer_group_id
                  /\ l.review_required = 0
                  /\ r.review_required = 0
        /\ \A t \in svc.transactions :
               (t.type = "transfer" /\ ~\E r \in svc.transactions : Counterparts(t, r))
               => t.transfer_group_id = None /\ t.review_required = 1

----------------------------------------------------------------------------
(* C11 *)

\* The validation failures of an import request, read off the request: the
\* file has a recognised header and no importable row, or replace_month is
\* asked without year and month and the valid rows do not lie in one month,
\* or the given year/month is outside 2000..2100 / 1..12
InvalidImport(file, replace_month, year, month) ==
    LET is_cleaned_schema == {"date", "amount", "description"} \subseteq file.fieldnames
        is_raw_tsv_schema == {"naljja", "geumaek", "naeyong"} \subseteq file.fieldnames
        normalized_rows == NormalizeFrom(is_cleaned_schema, file.records, 1, nextId)
        months == {DateKey7(normalized_rows[j].date) : j \in 1..Len(normalized_rows)}
    IN  /\ is_cleaned_schema \/ is_raw_tsv_schema
        /\ \/ normalized_rows = <<>>
           \/ replace_month /\ (year = None \/ month = None) /\ Cardinality(months) > 1
           \/ /\ replace_month
              /\ year # None
              /\ month # None
              /\ year[1] < 2000 \/ year[1] > 2100 \/ month[1] < 1 \/ month[1] > 12

\* The validation failures of an update: no field, a blank date, an amount <= 0
InvalidUpdate(payload) ==
    \/ DOMAIN payload = {}
    \/ Has(payload, "date") /\ Strip(payload.date) = ""
    \/ Has(payload, "amount") /\ payload.amount <= 0

\* C11: an import request that fails validation (no importable row, month
\* ambiguous without explicit year/month, year/month out of range) and a by-id
\* or by-match update that fails validation (no field, blank date, amount <= 0)
\* are answered 400, start no batch and leave the store unchanged.
C11_RejectedBeforeMutation ==
    [][(hist'.requests = hist.requests + 1) =>
          \/ db' = db /\ imp' = imp /\ last'.status = 400
          \/ /\ ~ \E name \in DOMAIN Files, p \in ReplaceParams :
                     /\ name = (IF imp'.pc = "idle" THEN last'.file ELSE imp'.file)
                     /\ p[1] = (IF imp'.pc = "idle" THEN last'.replace_month
                                ELSE imp'.replace_month)
                     /\ InvalidImport(Files[name], p[1], p[2], p[3])
                     /\ ImportStart(Files[name], name, p[1], p[2], p[3])
             /\ ~ \E direction \in Directions,
                     payload \in {u \in UpdatePayloads : InvalidUpdate(u)} :
                     \/ \E id \in Ids(db) \cup {"missing"} :
                            /\ last'.op = "update"
                            /\ last'.id = id
                            /\ update_transaction(direction, id, payload)
                     \/ \E r \in db :
                            /\ last'.op = "update_by_match"
                            /\ update_transaction_by_match(direction, SnapshotOf(r), payload)]_vars

\* A replace-month import of a file spanning two months, sent without year and
\* month, was rejected while a row of one of the file's months is stored.
C11_Witness ==
    /\ last.op = "import"
    /\ last.status = 400
    /\ last.replace_month
    /\ last.file = "dup_csv"
    /\ \E r \in db : DateLike(r.date, "2026-02")

----------------------------------------------------------------------------
(* C12 *)

\* The stored rows a snapshot describes within a direction: same date,
\* category, description, absolute amount, method and excluded flag
SnapshotMatches(rows, direction, original) ==
    {r \in rows :
        /\ r.direction = direction
        /\ r.date = original.date
        /\ r.raw_category = original.category
        /\ r.description = original.description
        /\ Abs(r.amount) = original.amount
        /\ r.method = original.method
        /\ (r.is_excluded # 0) = original.excluded}

\* C12: a by-match update that passes validation (some field to update, no
\* blank date, amounts > 0) and whose snapshot describes no stored row of the
\* endpoint's direction is answered 404; one whose snapshot describes more
\* than one is answered 409; in both cases the store is unchanged.
C12_NoMatchOrConflict ==
    [][(hist'.requests = hist.requests + 1 /\ last'.op = "update_by_match") =>
          \A direction \in Directions, r \in db,
             payload \in {u \in UpdatePayloads : ~InvalidUpdate(u)} :
              LET original == SnapshotOf(r)
                  n == Cardinality(SnapshotMatches(db, direction, original))
              IN  (/\ original.amount > 0
                   /\ n # 1
                   /\ update_transaction_by_match(direction, original, payload))
                  => /\ n = 0 => last'.status = 404 /\ db' = db
                     /\ n > 1 => last'.status = 409 /\ db' = db]_vars

\* A by-match update was answered 409 while two stored rows differ in their
\* identifiers only.
C12_Witness ==
    /\ last.op = "update_by_match"
    /\ last.status = 409
    /\ \E r1, r2 \in db :
           /\ r1.id # r2.id
           /\ \A c \in DOMAIN r1 \ {"id"} : r1[c] = r2[c]

----------------------------------------------------------------------------
(* C13 *)

\* C13: when a by-match update that passes validation has a snapshot
\* describing exactly one stored row, the request succeeds, that row holds the
\* updated values afterwards, and its import_fingerprint is the fingerprint of
\* its merged content; no other row changes.
C13_MatchUpdateRecomputesFingerprint ==
    [][(hist'.requests = hist.requests + 1 /\ last'.op = "update_by_match") =>
          \A direction \in Directions, r \in db,
             payload \in {u \in UpdatePayloads : ~InvalidUpdate(u)} :
              LET original == SnapshotOf(r)
                  updates == _build_transaction_updates(payload, direction).updates
              IN  (/\ original.amount > 0
                   /\ SnapshotMatches(db, direction, original) = {r}
                   /\ update_transaction_by_match(direction, original, payload))
                  => /\ last'.status = 200
                     /\ \E r2 \in db' :
                            /\ db' = (db \ {r}) \cup {r2}
                            /\ r2.id = r.id
                            /\ \A c \in DOMAIN updates : r2[c] = updates[c]
                            /\ r2.import_fingerprint = _transaction_fingerprint(r2)]_vars

----------------------------------------------------------------------------
(* C14 *)

\* Every group identifier of the table is held by exactly two rows, whose
\* signed amounts are exactly opposite
GroupsArePairs(rows) ==
    \A r \in rows :
        r.transfer_group_id # None =>
            \E r2 \in rows :
                /\ r2.id # r.id
                /\ {x \in rows : x.transfer_group_id = r.transfer_group_id} = {r, r2}
                /\ r2.signed_amount = -r.signed_amount

\* C14: after every import_tsv call, in the table as the service sees it and
\* as committed, every non-null transfer_group_id is held by exactly two rows
\* with exactly opposite signed amounts (so no row is in two groups), and a
\* row that had a group before the call has the same group after it.
C14_TransferGroups ==
    [][/\ GroupsArePairs(svc'.transactions)
       /\ GroupsArePairs(svc'.committed)
       /\ \A r \in svc.transactions :
              r.transfer_group_id # None =>
                  \E r2 \in svc'.transactions :
                      r2.id = r.id /\ r2.transfer_group_id = r.transfer_group_id]_vars

\* After a second call a group is stored next to an ungrouped transfer row
\* that is the exact opposite of one of the group's rows within the window.
C14_Witness ==
    /\ svc.calls >= 2
    /\ \E r, r2 \in svc.transactions :
           /\ r.type = "transfer"
           /\ r.transfer_group_id = None
           /\ r2.transfer_group_id # None
           /\ Counterparts(r, r2)

----------------------------------------------------------------------------
(* C15 *)

\* The records of a text that _normalize_row does not reject
NonRejected(records) ==
    {i \in 1..Len(records) : _normalize_row(records[i]).status = "row"}

\* C15: when import_tsv is called with the text of the call that returned just
\* before it, it returns imported = 0 and skipped_duplicates = the number of
\* records of the text that are not rejected, and the table holds the same
\* rows as before; after every call no two stored rows share a row_hash.
C15_LedgerReimportIsIdempotent ==
    [][/\ \A records \in LedgerTexts :
              (/\ svc.result.status = "ok"
               /\ svc.result.raw_text = records
               /\ import_tsv(records))
              => /\ svc'.result.status = "ok"
                 /\ svc'.result.imported = 0
                 /\ svc'.result.skipped_duplicates = Cardinality(NonRejected(records))
                 /\ svc'.transactions = svc.transactions
       /\ \A r1, r2 \in svc'.transactions : r1.row_hash = r2.row_hash => r1 = r2]_vars

\* A text with a rejected record, whose first import stored two rows, was
\* imported a second time: two records skipped, nothing imported.
C15_Witness ==
    /\ svc.calls = 2
    /\ svc.result.status = "ok"
    /\ svc.result.raw_text = <<LegLate, LegUsd, LedgerBlank>>
    /\ svc.result.imported = 0
    /\ svc.result.skipped_duplicates = 2
    /\ Cardinality(svc.transactions) = 2

----------------------------------------------------------------------------
(* C16 *)

\* C16: after every step that changes the store (the empty store has no
\* totals), for each month, summary.income is the sum of
\* |amount| over the stored non-excluded income rows of the month,
\* summary.expense the sum over the non-excluded expense rows, net_cashflow
\* their difference, and the breakdown gives each category the sum over its
\* non-excluded expense rows and lists no category with excluded rows only
\* (transaction_count counts every row of the month, excluded or not);
\* an update that succeeds (marking a row excluded or not) deletes no row.
C16_ExcludedLeftOutOfTotals ==
    [][/\ \A ym \in {m \in Months : db' # db} :
              LET rows == {r \in db' : DateLike(r.date, _month_prefix(ym[1], ym[2]))}
                  included == {r \in rows : r.is_excluded = 0}
                  expenses == {r \in included : r.direction = "expense"}
                  income == SumAbs({r \in included : r.direction = "income"})
                  expense == SumAbs(expenses)
              IN  /\ summary(ym[1], ym[2])' =
                         [year |-> ym[1], month |-> ym[2], income |-> income,
                          expense |-> expense, net_cashflow |-> income - expense,
                          transaction_count |-> Cardinality(rows)]
                  /\ category_breakdown(ym[1], ym[2])' =
                         [c \in {r.raw_category : r \in expenses} |->
                             SumAbs({r \in expenses : r.raw_category = c})]
       /\ (/\ hist'.requests = hist.requests + 1
           /\ imp'.pc = "idle"
           /\ last'.op \in {"update", "update_by_match"}
           /\ last'.status = 200)
          => Ids(db') = Ids(db)]_vars

\* An update has marked an expense row of February excluded: the row is
\* stored, and the month's expense total and breakdown leave its amount out.
C16_Witness ==
    /\ last.op \in {"update", "update_by_match"}
    /\ last.status = 200
    /\ \E r \in db :
           /\ DateLike(r.date, "2026-02")
           /\ r.direction = "expense"
           /\ r.is_excluded = 1
           /\ r.amount # 0
    /\ \E r \in db : DateLike(r.date, "2026-02") /\ r.direction = "expense" /\ r.is_excluded = 0
    /\ summary(2026, 2).expense = 50
    /\ DOMAIN category_breakdown(2026, 2) = {"food"}

----------------------------------------------------------------------------
(* C17 *)

\* The records of a ledger text without a row-level defect: a date, an amount
\* that parses and a description
WellFormed(records) ==
    {i \in 1..Len(records) :
        /\ Strip(Get(records[i], "naljja")) # ""
        /\ LedgerInt(Get(records[i], "geumaek")).ok
        /\ Strip(Get(records[i], "naeyong")) # ""}

\* C17: every import_tsv call returns, whatever defective records the text
\* holds, and the rows it reports as imported or skipped are the records
\* without a defect.
C17_DefectiveRowsNeverFailBatch ==
    [][\A records \in LedgerTexts :
           import_tsv(records)
           => /\ svc'.result.status = "ok"
              /\ svc'.result.imported + svc'.result.skipped_duplicates
                     = Cardinality(WellFormed(records))]_vars

----------------------------------------------------------------------------
(* C18 *)

\* C18: when the reconcile loop processes a candidate, the candidate's
\* identifier is the identifier of no stored row and of no other candidate of
\* the batch, and the INSERT of a candidate judged new does not fail on the
\* primary key.
C18_FreshIdentifiers ==
    [][RowStep =>
          LET row == imp.normalized_rows[imp.i]
          IN  /\ row.id \notin Ids(imp.db0)
              /\ \A j \in 1..Len(imp.normalized_rows) :
                     j # imp.i => imp.normalized_rows[j].id # row.id
              /\ ~FailStep]_vars

----------------------------------------------------------------------------
(* C19 *)

\* C19: when an import call ends (commit or failure), the summary last
\* answered, if one was answered since the request before the call, is the
\* summary of the rows stored when the call started or the summary of the rows
\* stored when it ended.
C19_ReadIsolation ==
    [][(imp.pc # "idle" /\ imp'.pc = "idle" /\ last.op = "summary") =>
          \/ last.result = MonthlySummary(imp.db0, last.result.year, last.result.month)
          \/ last.result = MonthlySummary(db', last.result.year, last.result.month)]_vars

----------------------------------------------------------------------------
(* C20 *)

\* C20: in every state no two stored rows carry the same non-empty
\* import_fingerprint.
C20_FingerprintsUnique ==
    \A r1, r2 \in db :
        (r1.import_fingerprint # None /\ r1.import_fingerprint = r2.import_fingerprint)
        => r1.id = r2.id

----------------------------------------------------------------------------
(* C21 *)

\* The store after a logged update served alone on rows
AfterUpdate(rows, entry) ==
    LET plan == UpdatePlan(rows, entry.direction, entry.response.id, entry.payload)
    IN  IF plan.status # 200 THEN rows
        ELSE _apply_transaction_update(rows, entry.response.id, plan.updates, entry.direction)

\* C21: when two by-id updates of the imported row have both completed, in
\* any interleaving of their steps, the store is the one that results from
\* serving the two updates one after the other in one of the two orders, and
\* the row's stored fingerprint is the fingerprint of its content.
C21_UpdatesSerializable ==
    (/\ Len(hist.log) = 3
     /\ pending = {}
     /\ hist.log[1].response.op = "import"
     /\ hist.log[1].response.status = 200
     /\ hist.log[2].response.op = "update"
     /\ hist.log[2].response.status = 200
     /\ hist.log[3].response.op = "update"
     /\ hist.log[3].response.status = 200)
    => /\ \/ db = AfterUpdate(AfterUpdate(hist.log[1].rows, hist.log[2]), hist.log[3])
          \/ db = AfterUpdate(AfterUpdate(hist.log[1].rows, hist.log[3]), hist.log[2])
       /\ \A r \in db : r.import_fingerprint = _transaction_fingerprint(r)

----------------------------------------------------------------------------
(* C22 *)

\* The stored row the cascade resolves the candidate to: the single row of
\* the first level that has exactly one row, <<>> when no level has one
CascadeTarget(rows, row) ==
    IF Cardinality(Level1(rows, row)) = 1 THEN Level1(rows, row)
    ELSE IF Cardinality(Level2(rows, row)) = 1 THEN Level2(rows, row)
    ELSE IF Cardinality(Level3(rows, row)) = 1 THEN Level3(rows, row)
    ELSE {}

\* C22: a candidate whose fingerprint is not known is resolved to the single
\* stored row sharing its key (date, amount, direction, method) when there is
\* exactly one, otherwise to the single row sharing (date, amount, direction),
\* otherwise to the single row sharing (date, description, direction, method);
\* a level with no row or with two or more rows passes to the next one, and
\* when no level has exactly one row the candidate is inserted as a new row.
C22_FallbackCascadeOrder ==
    [][LET row == imp.normalized_rows[imp.i]
           rows == View(db, imp.writes)
           fingerprint == _transaction_fingerprint(row)
           target == CascadeTarget(rows, row)
       IN  (RowStep /\ fingerprint \notin imp.seen_fingerprints)
           => IF target # {}
              THEN imp'.writes = Append(imp.writes,
                       [kind |-> "update", id |-> (CHOOSE r \in target : TRUE).id,
                        fingerprint |-> fingerprint])
              ELSE imp'.writes = Append(imp.writes,
                       [kind |-> "insert", row |-> InsertedRow(row, fingerprint)])]_vars

----------------------------------------------------------------------------
(* C23 *)

\* C23: a candidate whose fingerprint is carried by a row of the store, rows
\* written earlier in the same batch included, is counted as a skipped
\* duplicate and causes no write; a step in which the fallback matcher ran,
\* which ends in a fingerprint rewrite, an insert or a failed insert, is a
\* step whose candidate's fingerprint no such row carries.
C23_ExactFingerprintSkips ==
    [][RowStep =>
         LET row == imp.normalized_rows[imp.i]
             rows == View(db, imp.writes)
             carried == _transaction_fingerprint(row) \in StoredFingerprints(rows)
         IN  /\ carried => /\ imp'.pc = "loop"
                           /\ imp'.i = imp.i + 1
                           /\ imp'.writes = imp.writes
                           /\ imp'.skipped_duplicates = imp.skipped_duplicates + 1
                           /\ db' = db
             /\ (imp'.writes # imp.writes \/ FailStep) => ~carried]_vars

\* The first candidate of a running import was skipped without a write: a
\* stored row carries its fingerprint.
C23_Witness ==
    /\ imp.pc = "loop"
    /\ imp.i = 2
    /\ imp.writes = <<>>
    /\ imp.skipped_duplicates = 1
    /\ _transaction_fingerprint(imp.normalized_rows[1]) \in StoredFingerprints(db)

----------------------------------------------------------------------------
(* C24 *)

\* The k-th logged request rewrote the fingerprint of a row stored before it:
\* an import does so only for a fallback match
FallbackMatched(k) ==
    \E r \in hist.log[k].rows, r0 \in hist.log[k - 1].rows :
        r.id = r0.id /\ r.import_fingerprint # r0.import_fingerprint

\* C24: when a successful import in which a candidate was resolved by a
\* fallback match is followed, with no request in between, by an import of
\* the same file, the second import succeeds with imported = 0 and leaves
\* every stored row as it was, fingerprints included.
C24_ReimportAfterFallbackWritesNothing ==
    \A k \in 2..(Len(hist.log) - 1) :
        (/\ hist.log[k].response.op = "import"
         /\ hist.log[k].response.status = 200
         /\ hist.log[k + 1].response.op = "import"
         /\ hist.log[k + 1].response.file = hist.log[k].response.file
         /\ FallbackMatched(k))
        => /\ hist.log[k + 1].response.status = 200
           /\ hist.log[k + 1].response.imported = 0
           /\ hist.log[k + 1].rows = hist.log[k].rows

----------------------------------------------------------------------------
(* C25 *)

\* The month prefixes of the candidate rows of a file
CandidateMonths(normalized_rows) ==
    {DateKey7(normalized_rows[j].date) : j \in 1..Len(normalized_rows)}

\* C25: the deletion step of a replace-month import removes exactly the
\* stored rows dated in the target month, which is the year and month of the
\* request when both are given and otherwise the one month all candidate rows
\* are dated in; every other stored row stays as it was.
C25_ReplaceMonthScope ==
    [][(imp.pc = "idle" /\ imp'.pc = "load" /\ imp'.replace_month) =>
          \A p \in ReplaceParams :
              (p[1] /\ ImportStart(Files[imp'.file], imp'.file, p[1], p[2], p[3]))
              => LET months == CandidateMonths(imp'.normalized_rows)
                     prefix == IF p[2] # None /\ p[3] # None
                               THEN _month_prefix(p[2][1], p[3][1])
                               ELSE CHOOSE k \in months : TRUE
                 IN  /\ (p[2] = None \/ p[3] = None) => Cardinality(months) = 1
                     /\ TargetPrefix(imp') = prefix
                     /\ db' = {r \in db : ~(DateLen7(r.date) /\ DateKey7(r.date) = prefix)}
                     /\ imp'.deleted = Cardinality(db \ db')]_vars

\* The deletion step of a replace-month import has run: it removed a stored
\* row of the target month and kept a stored row of another month.
C25_Witness ==
    /\ imp.pc = "load"
    /\ imp.replace_month
    /\ imp.deleted >= 1
    /\ imp.db0 # db
    /\ \E r \in db : ~DateLike(r.date, TargetPrefix(imp))

----------------------------------------------------------------------------
(* C26 *)

\* C26: in every step of an import, a row stored after the step that was not
\* stored before it has is_excluded = 1 if its raw category is one of the
\* transfer-like labels and is_excluded = 0 otherwise, and a row stored before
\* and after the step has the excluded flag it had.
C26_AutomaticExclusion ==
    [][(Call(imp, imp').pc # "idle" /\ db' # db) =>
          \A r \in db' :
              IF r.id \in Ids(db)
              THEN \A r0 \in db : r0.id = r.id => r.is_excluded = r0.is_excluded
              ELSE r.is_excluded
                     = (IF r.raw_category \in {"iche", "naebuiche", "transfer", "internal transfer"}
                        THEN 1 ELSE 0)]_vars

\* An import has committed that inserted a row with a transfer-like category,
\* excluded, next to a stored row of another category that was excluded
\* before the import and still is.
C26_Witness ==
    /\ last.op = "import"
    /\ last.status = 200
    /\ last.imported >= 1
    /\ \E r \in db : r.raw_category = "transfer" /\ r.is_excluded = 1
                       /\ r.import_fingerprint = _transaction_fingerprint(r)
    /\ \E r \in db : r.raw_category \notin AUTO_EXCLUDED_CATEGORIES /\ r.is_excluded = 1

----------------------------------------------------------------------------
(* C27 *)

\* The amount texts that stand for an integer amount, in a cleaned record and
\* in a native record (where thousands separators are allowed)
Parseable(cleaned) ==
    IF cleaned THEN {"-50", "50", "0", "50.9"} ELSE {"-50", "50", "0", "-5,0"}

\* The texts of a drawn record by role, whatever its schema
Field(input, role) ==
    IF input.cleaned
    THEN Get(input.row, role)
    ELSE Get(input.row, CASE role = "date" -> "naljja"
                          [] role = "amount" -> "geumaek"
                          [] role = "description" -> "naeyong"
                          [] OTHER -> role)

\* C27: the normalizer returns no candidate, and raises nothing, exactly for
\* the records with a blank date, an amount text that does not stand for an
\* integer, or a blank description; for every other record it returns one
\* candidate, whose merchant is the record's merchant or, without one, the
\* description, and whose raw category is the unclassified sentinel when the
\* record carries no category.
C27_NormalizerRejection ==
    last.op = "normalized" =>
        LET date == Strip(Field(last, "date"))
            description == Strip(Field(last, "description"))
            rejected == \/ date = ""
                        \/ Field(last, "amount") \notin Parseable(last.cleaned)
                        \/ description = ""
        IN  IF rejected THEN last.result = None
            ELSE /\ Len(last.result) = 1
                 /\ DOMAIN last.result[1] =
                        {"id", "date", "amount", "description", "merchant", "method",
                         "direction", "raw_category", "memo"}
                 /\ last.result[1].merchant =
                        (IF last.cleaned /\ Strip(Get(last.row, "merchant")) # ""
                         THEN Strip(Get(last.row, "merchant")) ELSE description)
                 /\ last.cleaned =>
                        last.result[1].raw_category =
                            (IF Strip(Get(last.row, "raw_category")) # ""
                             THEN Strip(Get(last.row, "raw_category")) ELSE "mibunryu")
                 /\ (~last.cleaned /\ (Get(last.row, "daebunryu") = ""
                                       \/ Get(last.row, "sobunryu") = ""))
                        => last.result[1].raw_category = "mibunryu"

----------------------------------------------------------------------------
(* C28 *)

\* The integer an amount text of a drawn record stands for
AmountOf(input) ==
    CASE Field(input, "amount") \in {"-50", "-5,0"} -> -50
      [] Field(input, "amount") \in {"50", "50.9"} -> 50
      [] OTHER -> 0

\* The direction a drawn record states: the direction column of a cleaned
\* record, the direction of the type of a native record
StatedDirection(input) ==
    IF input.cleaned
    THEN Lower(Strip(Get(input.row, "direction")))
    ELSE CASE Strip(Get(input.row, "taip")) = "suip" -> "income"
           [] Strip(Get(input.row, "taip")) = "jichul" -> "expense"
           [] OTHER -> ""

\* C28: the candidate of a record keeps the direction the record states when
\* that is income or expense, and otherwise has direction income if the
\* parsed amount is >= 0 and expense if it is < 0; its amount is the absolute
\* value of the parsed amount for income and minus the absolute value for
\* expense, whatever the sign in the record.
C28_DirectionAndSign ==
    (last.op = "normalized" /\ last.result \notin {None, OverflowError}) =>
        LET amount == AmountOf(last)
            magnitude == IF amount >= 0 THEN amount ELSE -amount
            direction == IF StatedDirection(last) \in {"income", "expense"}
                         THEN StatedDirection(last)
                         ELSE IF amount >= 0 THEN "income" ELSE "expense"
        IN  /\ last.result[1].direction = direction
            /\ last.result[1].amount = (IF direction = "income" THEN magnitude ELSE -magnitude)

\* A cleaned record with a positive amount and the direction expense was
\* normalized: its candidate has the negated amount.
C28_Witness ==
    /\ last.op = "normalized"
    /\ last.cleaned
    /\ last.row.amount = "50"
    /\ last.row.direction = "Expense"
    /\ last.result # None
    /\ last.result[1].amount = -50

----------------------------------------------------------------------------
(* C29 *)

\* C29: the candidate of a native record has the direction its transaction
\* type has in the three-way table (income, expense, transfer), and for a
\* type that is not in the table direction income if the amount is >= 0 and
\* expense otherwise.
C29_ThreeWayTypeTable ==
    (last.op = "normalized" /\ ~last.cleaned /\ last.result \notin {None, OverflowError}) =>
        last.result[1].direction =
            (CASE Strip(Get(last.row, "taip")) = "suip" -> "income"
               [] Strip(Get(last.row, "taip")) = "jichul" -> "expense"
               [] Strip(Get(last.row, "taip")) = "iche" -> "transfer"
               [] OTHER -> IF AmountOf(last) >= 0 THEN "income" ELSE "expense")

----------------------------------------------------------------------------
(* C30 *)

\* C30: a successful by-id update whose only field is the excluded flag
\* leaves the stored import_fingerprint of the row as it was.
C30_ExcludedEditKeepsFingerprint ==
    [][(/\ hist'.requests = hist.requests + 1
        /\ imp'.pc = "idle"
        /\ last'.op = "update"
        /\ last'.status = 200)
       => \A direction \in Directions :
              update_transaction(direction, last'.id, [excluded |-> TRUE])
              => \A r \in db, r1 \in db' :
                     (r.id = last'.id /\ r1.id = last'.id)
                     => r1.import_fingerprint = r.import_fingerprint]_vars

----------------------------------------------------------------------------
(* C31 *)

\* C31: right after a request that created a row, and right after a by-id
\* update that succeeded, the row of the request is stored with the
\* fingerprint of its stored date, amount, description, method, direction and
\* raw category; the update changed neither the identifier nor the direction:
\* the row was stored under the same identifier and direction before it.
C31_FreshFingerprint ==
    \A k \in 1..Len(hist.log) :
        LET entry == hist.log[k]
            before == IF k = 1 THEN {} ELSE hist.log[k - 1].rows
        IN  (entry.response.op \in {"create", "update"} /\ entry.response.status = 200)
            => /\ \E r \in entry.rows : r.id = entry.response.id
               /\ \A r \in entry.rows :
                      r.id = entry.response.id
                      => /\ r.import_fingerprint =
                                <<r.date, "|", r.amount, "|", r.description, "|", r.method, "|",
                                  r.direction, "|", r.raw_category>>
                         /\ entry.response.op = "update"
                                => \E r0 \in before : r0.id = r.id /\ r0.direction = r.direction

----------------------------------------------------------------------------
(* C32 *)

\* C32: after an import_tsv call that returned, (1) no transfer row with an
\* internal-transfer keyword is left without a group while a row without a
\* group, of any type, has the same currency, the opposite signed amount and
\* a timestamp at most five minutes away; (2) the row a keyword row was paired
\* with is the first such row in time order: no row still without a group is
\* an earlier counterpart of the keyword row.
C32_CounterpartOfAnyType ==
    svc.result.status = "ok" =>
        /\ \A l, r \in svc.transactions :
               (/\ l.type = "transfer"
                /\ _is_internal_transfer(l.content)
                /\ l.transfer_group_id = None
                /\ r.transfer_group_id = None)
               => ~Counterparts(l, r)
        /\ \A l, r, r2 \in svc.transactions :
               (/\ l.transfer_group_id = Some(<<l.id, ":", r.id>>)
                /\ r2.transfer_group_id = None
                /\ Counterparts(l, r2))
               => r2.occurred_at >= r.occurred_at

----------------------------------------------------------------------------
(* C33 *)

\* C33: when an import_tsv call that returns inserts a transfer row r, and a
\* transfer row l inserted by an earlier call is its opposite leg (same
\* currency, opposite signed amount, at most five minutes apart, one of the
\* two carrying an internal-transfer keyword, neither having another
\* counterpart), then after the call l and r hold the same non-null
\* transfer_group_id.
C33_CrossBatchPairing ==
    [][(svc'.calls = svc.calls + 1 /\ svc'.result.status = "ok") =>
          \A l \in svc.transactions, r \in svc'.transactions :
              (/\ \A x \in svc.transactions : x.id # r.id
               /\ l.type = "transfer"
               /\ r.type = "transfer"
               /\ _is_internal_transfer(l.content) \/ _is_internal_transfer(r.content)
               /\ Counterparts(l, r)
               /\ \A x \in svc'.transactions :
                      /\ Counterparts(l, x) => x.id = r.id
                      /\ Counterparts(r, x) => x.id = l.id)
              => /\ r.transfer_group_id # None
                 /\ \E l1 \in svc'.transactions :
                        l1.id = l.id /\ l1.transfer_group_id = r.transfer_group_id]_vars

\* The second call imported the single record LegOut, and the row it inserted
\* is grouped with a row of the first call.
C33_Witness ==
    /\ svc.calls = 2
    /\ svc.result.status = "ok"
    /\ svc.result.raw_text = <<LegOut>>
    /\ svc.result.imported = 1
    /\ \E l, r \in svc.transactions :
           /\ l.id < r.id
           /\ r.content = Some("atm")
           /\ r.transfer_group_id # None
           /\ l.transfer_group_id = r.transfer_group_id

----------------------------------------------------------------------------
(* C34 *)

\* C34: an income row with a negative signed amount and an expense row with a
\* positive one are stored with review_required = 1, the review_required count
\* an import_tsv call returns is the number of such rows the call inserted,
\* and the income and expense totals of monthly_summary are the sums of the
\* positive income amounts and of the magnitudes of the negative expense
\* amounts of the month: contradicting rows and transfer rows add nothing.
C34_ContradictingSign ==
    [][(svc'.calls = svc.calls + 1 /\ svc'.result.status = "ok") =>
          LET rows == svc'.transactions
              Contradicts(r) == \/ r.type = "income" /\ r.signed_amount < 0
                                \/ r.type = "expense" /\ r.signed_amount > 0
              Agreeing(type) == {r \in rows : r.type = type /\ ~Contradicts(r)}
              Magnitudes(type) ==
                  LET amounts == {r.amount : r \in Agreeing(type)}
                  IN  IF amounts = {} THEN 0
                      ELSE IF amounts = {10} THEN 10 * Cardinality(Agreeing(type))
                      ELSE -1
              total == monthly_summary(rows, 2026, 2)
          IN  /\ \A r \in rows : Contradicts(r) => r.review_required = 1
              /\ svc'.result.review_required =
                     Cardinality({r \in rows : /\ Contradicts(r)
                                               /\ \A x \in svc.transactions : x.id # r.id})
              /\ total.income = Magnitudes("income")
              /\ total.expense = Magnitudes("expense")
              /\ monthly_summary(rows, 2026, 3).income = 0
              /\ monthly_summary(rows, 2026, 3).expense = 0]_vars

\* A contradicting income row, a contradicting expense row, an agreeing
\* expense row and a transfer row are stored, and only the agreeing expense
\* is in the totals.
C34_Witness ==
    /\ svc.result.status = "ok"
    /\ svc.result.raw_text = <<Clawback, Spend>>
    /\ svc.result.review_required = 1
    /\ \E r \in svc.transactions : r.type = "income" /\ r.signed_amount < 0
    /\ \E r \in svc.transactions : r.type = "expense" /\ r.signed_amount > 0
    /\ \E r \in svc.transactions : r.type = "transfer"
    /\ monthly_summary(svc.transactions, 2026, 2).expense = 10
    /\ monthly_summary(svc.transactions, 2026, 2).income = 0

----------------------------------------------------------------------------
(* C35 *)

\* C35: after an import_tsv call that raised, the table the service's
\* connection sees is the committed table: no row the call inserted before
\* the failure is visible to a later query or left for a later call to commit.
C35_FailedImportLeavesNothing ==
    svc.result.status = "raise" => svc.transactions = svc.committed

----------------------------------------------------------------------------
(* C36 *)

\* C36: when an import completes with status 200, imported plus
\* skipped_duplicates is the number of records of the file the normalizer did
\* not reject, imported is the number of rows the call inserted, and the
\* store holds as many rows as before the call, minus deleted, plus imported.
C36_CountConservation ==
    [][(CommitStep /\ last'.status = 200) =>
          LET file == Files[imp.file]
              cleaned == {"date", "amount", "description"} \subseteq file.fieldnames
              kept == {i \in 1..Len(file.records) :
                          IF cleaned THEN _normalize_cleaned_row(file.records[i], Uuid4(1)) # None
                          ELSE _normalize_tsv_row(file.records[i], Uuid4(1)) # None}
          IN  /\ last'.imported + last'.skipped_duplicates = Cardinality(kept)
              /\ last'.imported
                     = Cardinality({k \in 1..Len(imp.writes) : imp.writes[k].kind = "insert"})
              /\ Cardinality(db') = Cardinality(imp.db0) - last'.deleted + last'.imported]_vars

\* A replace-month import that deleted rows, inserted rows and skipped a
\* duplicate has completed.
C36_Witness ==
    /\ last.op = "import"
    /\ last.status = 200
    /\ last.deleted > 0
    /\ last.imported > 0
    /\ last.skipped_duplicates > 0

----------------------------------------------------------------------------
(* C37 *)

\* C37: in a store built from the empty store by imports alone, no two rows
\* have the same (date, amount, direction) key and no two rows have the same
\* (date, description, direction, method) key.
C37_KeysUniqueAfterImports ==
    \A r1, r2 \in db :
        r1 # r2 => /\ _transaction_fallback_key(r1) # _transaction_fallback_key(r2)
                   /\ <<r1.date, r1.amount, r1.direction>> # <<r2.date, r2.amount, r2.direction>>
                   /\ _transaction_fallback_key_without_amount(r1)
                          # _transaction_fallback_key_without_amount(r2)
                   /\ <<r1.date, r1.description, r1.direction, r1.method>>
                          # <<r2.date, r2.description, r2.direction, r2.method>>

\* An import into a store of two rows has skipped a candidate that has the
\* (date, description, direction, method) key of a stored row but another
\* amount.
C37_Witness ==
    /\ last.op = "import"
    /\ last.status = 200
    /\ last.file = "z_csv"
    /\ last.skipped_duplicates = 1
    /\ Cardinality(db) = 2
    /\ \E r \in db : r.date = "2026-03-01" /\ r.amount # 0

----------------------------------------------------------------------------
(* C38 *)

\* C38: after an import_tsv call that returned, a further run of
\* _pair_internal_transfers, in whatever order the query returns rows of one
\* timestamp, assigns no group and changes no row.
C38_PairingFixpoint ==
    svc.result.status = "ok" =>
        \A candidates \in Orderings(unmatched_transfers(svc.transactions)) :
            _pair_internal_transfers(svc.transactions, candidates) = svc.transactions

\* The pass of the last call left a pair grouped and two transfer rows
\* ungrouped, one of them carrying a keyword.
C38_Witness ==
    /\ svc.result.status = "ok"
    /\ \E r \in svc.transactions : r.transfer_group_id # None
    /\ Cardinality(unmatched_transfers(svc.transactions)) >= 2
    /\ \E r \in unmatched_transfers(svc.transactions) : _is_internal_transfer(r.content)

----------------------------------------------------------------------------
(* C39 *)

\* C39: while the reconcile loop runs, after the maps are built and after
\* each candidate, each of the three fallback maps sends every key to exactly
\* the ids of the rows the importing connection sees with that key, the rows
\* inserted earlier in the batch included.
C39_MapsMatchStore ==
    imp.pc = "loop" =>
        LET rows == View(db, imp.writes)
        IN  /\ imp.fallback_with_method_map
                   = {<<_transaction_fallback_key_with_method(r), r.id>> : r \in rows}
            /\ imp.fallback_map = {<<_transaction_fallback_key(r), r.id>> : r \in rows}
            /\ imp.fallback_without_amount_map
                   = {<<_transaction_fallback_key_without_amount(r), r.id>> : r \in rows}

\* Two candidates are processed, one inserted and one matched, in an import
\* into a store that held rows before.
C39_Witness ==
    /\ imp.pc = "loop"
    /\ imp.i = 3
    /\ imp.db0 # {}
    /\ \E k \in 1..Len(imp.writes) : imp.writes[k].kind = "insert"
    /\ \E k \in 1..Len(imp.writes) : imp.writes[k].kind # "insert"

====
